---- MODULE Spec2Model ----
(***************************************************************************)
(* PolymarketEdge: the risk ledger (risk manager), the scan loop           *)
(* (bot/index.ts), the approval queue (approvals) and the position menu    *)
(* callbacks (menu), as two cooperative timelines over one persisted       *)
(* ledger file.                                                            *)
(*                                                                         *)
(* Units.  Money is an integer number of 1/10000 USDC (one hundredth of a  *)
(* cent), so that Math.floor(size * 100) / 100 is a real rounding step.    *)
(* Prices and probabilities are integer cents (0..100 stands for 0..1).    *)
(* Time is in hours.  The inputs are chosen so that the pnl division of    *)
(* recordClose is exact on them (entry prices divide 100); a Kelly size is *)
(* cut to the money unit.  NaN is one value apart from every number.       *)
(* Position ids (`${condition_id}-${Date.now()}`) are modelled as unique.  *)
(***************************************************************************)
EXTENDS Integers, Sequences, FiniteSets, TLC

VARIABLES
    file,     \* data/positions.json: the persisted RiskState
    queue,    \* approvals: let queue: PendingTrade[]
    now,      \* Date.now(), in hours
    nextId,   \* the next fresh position id
    calls,    \* how many operations have been started (see MaxOps, MaxCloses)
    scan,     \* the scan loop's timeline: position and locals of main/checkExits/processMarket
    poll,     \* the command poller's timeline: position and locals of handleCommand/handleCallback
    probe,    \* direct calls of checkRisk: their arguments and results
    running   \* bot/index.ts: let running = true, cleared by a shutdown request

vars == <<file, queue, now, nextId, calls, scan, poll, probe, running>>

-----------------------------------------------------------------------------
(* Bounds of the model *)

MaxPositions == 2     \* positions ever created
MaxQueue     == 1     \* pending trades held at once
MaxTime      == 25    \* the clock stops advancing here
MaxCloses    == 3     \* recordClose calls in a run of the bare ledger API
MaxChecks    == 2     \* checkRisk calls in a run of the bare ledger API
MaxEnqueues  == 3     \* queueTrade calls in a run of the bare approval queue
MaxThrows    == 2     \* exceptions raised inside scan cycles
MaxOps       == 6     \* scan cycles, priced markets and commands started in a run

-----------------------------------------------------------------------------
(* config.ts *)

CENT == 100
USDC == 100 * CENT
HOUR == 1

BANKROLL_USDC            == 1000 * USDC
MAX_POSITION_PCT         == 2      \* percent of bankroll (0.02)
MAX_TOTAL_EXPOSURE_PCT   == 15     \* 0.15
MAX_SINGLE_BUCKET_PCT    == 5      \* 0.05
DAILY_LOSS_LIMIT_PCT     == 4      \* 0.04
MAX_CONCURRENT_POSITIONS == 8
AUTO_EXECUTE_EDGE_PCT    == 12
AUTO_EXECUTE_CONFIDENCE  == 85
AUTO_EXECUTE_MAX_SIZE_PCT == 1     \* already a percentage: divided by 100 in config.ts

MAX_POSITION_USDC       == (BANKROLL_USDC * MAX_POSITION_PCT) \div 100
MAX_TOTAL_EXPOSURE_USDC == (BANKROLL_USDC * MAX_TOTAL_EXPOSURE_PCT) \div 100
MAX_SINGLE_BUCKET_USDC  == (BANKROLL_USDC * MAX_SINGLE_BUCKET_PCT) \div 100
DAILY_LOSS_LIMIT_USDC   == (BANKROLL_USDC * DAILY_LOSS_LIMIT_PCT) \div 100
AUTO_EXECUTE_MAX_USDC   == (BANKROLL_USDC * AUTO_EXECUTE_MAX_SIZE_PCT) \div 100

PAUSE_HOURS == 24     \* recordClose: Date.now() + 24 * 60 * 60 * 1000
TTL_HOURS   == 2      \* queueTrade: Date.now() - t.addedAt < 2 * 60 * 60 * 1000

\* exit thresholds of checkExits (config.ts exports them; the values are the deployment's)
EXIT_STOP_LOSS_FRAC   == 50     \* percent of the entry price
EXIT_PROFIT_THRESHOLD == 5      \* cents above the fair probability

-----------------------------------------------------------------------------
(* types.ts *)

MarketCategory == {"weather", "crypto_binary", "correlated", "sponsored"}

\* a Position as processMarket / handleCommand build it; the optional fields
\* (closed_at, exit_price, pnl_usdc, outcome) are 0 / "none" while unset
Position(id, category, size, entry, fair) ==
    [id |-> id, category |-> category, size_usdc |-> size, entry_price |-> entry,
     fair_prob |-> fair, status |-> "open",
     closed_at |-> 0, exit_price |-> 0, pnl_usdc |-> 0, outcome |-> "none"]

\* loadState()'s default when the file does not exist; paused_until 0 is undefined
EmptyState ==
    [open_positions |-> <<>>, daily_pnl_usdc |-> 0, total_exposure_usdc |-> 0,
     bucket_exposure |-> [c \in MarketCategory |-> 0], paused_until |-> 0]

-----------------------------------------------------------------------------
(* helpers over sequences *)

RECURSIVE SumSize(_)
SumSize(ps) == IF ps = <<>> THEN 0 ELSE Head(ps).size_usdc + SumSize(Tail(ps))

IsOpen(p) == p.status = "open"

\* state.open_positions.filter(p => p.status === 'open')
OpenOf(state) == SelectSeq(state.open_positions, IsOpen)

\* index of the first position with this id, 0 when there is none (Array.prototype.find)
FindId(ps, id) ==
    IF \E i \in 1..Len(ps) : ps[i].id = id
    THEN CHOOSE i \in 1..Len(ps) : ps[i].id = id /\ \A j \in 1..(i - 1) : ps[j].id # id
    ELSE 0

Max(a, b) == IF a >= b THEN a ELSE b

\* Number.NaN: what 1/0 - 1 = Infinity turns a size into; no amount of the
\* model is negative, so the value stands apart from every number
NaN == 0 - 1000000000

\* Math.min: NaN when an argument is NaN
MathMin(a, b) == IF a = NaN \/ b = NaN THEN NaN ELSE IF a <= b THEN a ELSE b

-----------------------------------------------------------------------------
(* risk manager *)

\* Math.floor(size * 100) / 100
FloorCents(size) == IF size = NaN THEN NaN ELSE (size \div CENT) * CENT

\* checkRisk(result, category, state) at time t, with result.size_usdc = size_usdc,
\* under a configuration whose MAX_POSITION_USDC is maxPositionUsdc;
\* every comparison with NaN is false, so a NaN size passes "size < 1"
checkRiskWith_NoBucketRoom(size_usdc, category, state, t, maxPositionUsdc) ==
    IF state.paused_until # 0 /\ t < state.paused_until
    THEN [allowed |-> FALSE, reason |-> "paused", sizeUsdc |-> 0]
    ELSE IF Len(OpenOf(state)) >= MAX_CONCURRENT_POSITIONS
    THEN [allowed |-> FALSE, reason |-> "max_positions", sizeUsdc |-> 0]
    ELSE IF state.total_exposure_usdc >= MAX_TOTAL_EXPOSURE_USDC
    THEN [allowed |-> FALSE, reason |-> "total_cap", sizeUsdc |-> 0]
    ELSE IF state.bucket_exposure[category] >= MAX_SINGLE_BUCKET_USDC
    THEN [allowed |-> FALSE, reason |-> "bucket_cap", sizeUsdc |-> 0]
    ELSE LET s1 == MathMin(size_usdc, maxPositionUsdc)
             s2 == MathMin(s1, MAX_TOTAL_EXPOSURE_USDC - state.total_exposure_usdc)
             size == FloorCents(s2)
         IN  IF size # NaN /\ size < 1 * USDC
             THEN [allowed |-> FALSE, reason |-> "too_small", sizeUsdc |-> 0]
             ELSE [allowed |-> TRUE, reason |-> "none", sizeUsdc |-> size]

checkRiskWith(size_usdc, category, state, t, maxPositionUsdc) ==
    IF state.paused_until # 0 /\ t < state.paused_until
    THEN [allowed |-> FALSE, reason |-> "paused", sizeUsdc |-> 0]
    ELSE IF Len(OpenOf(state)) >= MAX_CONCURRENT_POSITIONS
    THEN [allowed |-> FALSE, reason |-> "max_positions", sizeUsdc |-> 0]
    ELSE IF state.total_exposure_usdc >= MAX_TOTAL_EXPOSURE_USDC
    THEN [allowed |-> FALSE, reason |-> "total_cap", sizeUsdc |-> 0]
    ELSE IF state.bucket_exposure[category] >= MAX_SINGLE_BUCKET_USDC
    THEN [allowed |-> FALSE, reason |-> "bucket_cap", sizeUsdc |-> 0]
    ELSE LET s1 == MathMin(size_usdc, maxPositionUsdc)
             s2 == MathMin(s1, MAX_TOTAL_EXPOSURE_USDC - state.total_exposure_usdc)
             s3 == MathMin(s2, MAX_SINGLE_BUCKET_USDC - state.bucket_exposure[category])
             size == FloorCents(s3)
         IN  IF size # NaN /\ size < 1 * USDC
             THEN [allowed |-> FALSE, reason |-> "too_small", sizeUsdc |-> 0]
             ELSE [allowed |-> TRUE, reason |-> "none", sizeUsdc |-> size]

\* checkRisk under the default configuration
checkRisk(size_usdc, category, state, t) ==
    checkRiskWith(size_usdc, category, state, t, MAX_POSITION_USDC)

recordOpen(state, position) ==
    [state EXCEPT
        !.open_positions = Append(@, position),
        !.total_exposure_usdc = @ + position.size_usdc,
        !.bucket_exposure[position.category] = @ + position.size_usdc]

\* the realized pnl of recordClose
Pnl(pos, exitPrice) == ((exitPrice - pos.entry_price) * pos.size_usdc) \div pos.entry_price

\* recordClose that leaves paused_until alone
recordClose_NoPause(state, positionId, exitPrice, t) ==
    LET k == FindId(state.open_positions, positionId) IN
    IF k = 0 THEN state
    ELSE
    LET pos == state.open_positions[k]
        pnl == Pnl(pos, exitPrice)
        closed == [pos EXCEPT !.status = "closed", !.closed_at = t,
                              !.exit_price = exitPrice, !.pnl_usdc = pnl,
                              !.outcome = IF pnl >= 0 THEN "win" ELSE "loss"]
    IN  [open_positions |->
            [i \in 1..Len(state.open_positions) |->
                IF state.open_positions[i].id = positionId THEN closed
                ELSE state.open_positions[i]],
         daily_pnl_usdc |-> state.daily_pnl_usdc + pnl,
         total_exposure_usdc |-> Max(0, state.total_exposure_usdc - pos.size_usdc),
         bucket_exposure |->
            [state.bucket_exposure EXCEPT ![pos.category] = Max(0, @ - pos.size_usdc)],
         paused_until |-> state.paused_until]

\* recordClose's result when a position with this id is found; the position
\* is looked up by id alone, whatever its status
recordClose(state, positionId, exitPrice, t) ==
    LET k == FindId(state.open_positions, positionId) IN
    IF k = 0 THEN state
    ELSE
    LET pos == state.open_positions[k]
        pnl == Pnl(pos, exitPrice)
        closed == [pos EXCEPT !.status = "closed", !.closed_at = t,
                              !.exit_price = exitPrice, !.pnl_usdc = pnl,
                              !.outcome = IF pnl >= 0 THEN "win" ELSE "loss"]
        newDailyPnl == state.daily_pnl_usdc + pnl
    IN  [open_positions |->
            [i \in 1..Len(state.open_positions) |->
                IF state.open_positions[i].id = positionId THEN closed
                ELSE state.open_positions[i]],
         daily_pnl_usdc |-> newDailyPnl,
         total_exposure_usdc |-> Max(0, state.total_exposure_usdc - pos.size_usdc),
         bucket_exposure |->
            [state.bucket_exposure EXCEPT ![pos.category] = Max(0, @ - pos.size_usdc)],
         paused_until |->
            IF newDailyPnl < -DAILY_LOSS_LIMIT_USDC THEN t + PAUSE_HOURS * HOUR
            ELSE state.paused_until]

-----------------------------------------------------------------------------
(* pricer: the size attached to a priced result *)

\* kellySize under a configuration (bankroll, MAX_POSITION_PCT in percent):
\* b = 1/price - 1, kelly = (p*(b+1) - 1)/b = (p - price)/(1 - price),
\* half-Kelly of the bankroll capped at MAX_POSITION_PCT of it. At price 0, b is
\* Infinity and kelly is Infinity/Infinity (or 0 * Infinity): NaN, which passes
\* "kelly <= 0" and comes out of Math.min
kellySizeWith_NoCap(fairProb, impliedPrice, bankroll, maxPct) ==
    IF impliedPrice = 0 THEN NaN
    ELSE IF 100 - impliedPrice <= 0 THEN 0
    ELSE IF fairProb - impliedPrice <= 0 THEN 0
    ELSE ((fairProb - impliedPrice) * bankroll) \div (2 * (100 - impliedPrice))

kellySizeWith_FullKelly(fairProb, impliedPrice, bankroll, maxPct) ==
    IF impliedPrice = 0 THEN NaN
    ELSE IF 100 - impliedPrice <= 0 THEN 0
    ELSE IF fairProb - impliedPrice <= 0 THEN 0
    ELSE MathMin(((fairProb - impliedPrice) * bankroll) \div (100 - impliedPrice),
                 (bankroll * maxPct) \div 100)

kellySizeWith(fairProb, impliedPrice, bankroll, maxPct) ==
    IF impliedPrice = 0 THEN NaN
    ELSE IF 100 - impliedPrice <= 0 THEN 0            \* b <= 0
    ELSE IF fairProb - impliedPrice <= 0 THEN 0       \* kelly <= 0
    ELSE MathMin(((fairProb - impliedPrice) * bankroll) \div (2 * (100 - impliedPrice)),
                 (bankroll * maxPct) \div 100)

\* kellySize that sizes the distance between the two probabilities
kellySize_EitherSide(fairProb, impliedPrice) ==
    kellySizeWith(IF fairProb < impliedPrice THEN 2 * impliedPrice - fairProb ELSE fairProb,
                  impliedPrice, BANKROLL_USDC, MAX_POSITION_PCT)

\* kellySize under the default configuration
kellySize(fairProb, impliedPrice) ==
    kellySizeWith(fairProb, impliedPrice, BANKROLL_USDC, MAX_POSITION_PCT)

-----------------------------------------------------------------------------
(* Inputs of the model *)

\* entry prices, sizes and exit prices the bare ledger calls are tried on
LedgerCategories == {"weather", "correlated"}
EntryPrices == {50}
Sizes       == {20 * USDC, 45 * USDC}
ExitPrices  == {0, 100}

\* the instants at which the clock is sampled: a start, one TTL later and
\* one cooldown later
Instants == {1, 1 + TTL_HOURS * HOUR, 1 + PAUSE_HOURS * HOUR}

\* what priceMarket returns for the markets of a scan (market.category with
\* the PricerResult), before the Kelly size is attached
Opp(category, side, fair, implied, edge, conf) ==
    [category |-> category, side |-> side, fair_prob |-> fair, implied_prob |-> implied,
     edge_percent |-> edge, confidence |-> conf]

Opportunities ==
    { Opp("weather",    "Yes", 65, 50, 15, 90),    \* Kelly size capped at $20
      Opp("correlated", "Yes",  5,  4, 14, 90),    \* Kelly size $5.2083
      Opp("sponsored",  "Yes", 50, 40, 10, 75),    \* Kelly size capped at $20, edge low
      Opp("sponsored",  "No",  50, 60, 10, 75) }   \* fair below implied: Kelly size 0

NoOpp == Opp("none", "none", 0, 0, 0, 0)

\* order-book mid prices getMarketPrice can return for a live market
LivePrices == {20, 60, 80}

\* order-book mid prices at which a menu close is tried
MenuPrices == {60}

\* terminal prices checkResolution can return for a resolved market
ResolvedPrices == {0, 100}

\* size overrides of "approve <n>" (0: plain "approve")
Overrides == {0, 45 * USDC}

\* the menu keyboard's amounts: ad:<i>:10 and rd:<i>:5
AD_AMOUNT == 10 * USDC
RD_AMOUNT == 5 * USDC

-----------------------------------------------------------------------------
(* The two timelines *)

NoPos  == Position(0, "none", 0, 0, 0)

\* the scan loop asleep between two cycles (i: place in checkExits' snapshot,
\* m: markets of the cycle processed so far)
ScanIdle ==
    [pc |-> "sleep", open |-> <<>>, i |-> 0, m |-> 0, state |-> EmptyState,
     opp |-> NoOpp, sizeUsdc |-> 0, act |-> "none", alert |-> "none"]

\* the poller between two updates
PollIdle ==
    [pc |-> "idle", cmd |-> "none", trade |-> NoOpp, sizeUsdc |-> 0, pos |-> NoPos,
     reply |-> "none", shown |-> 0]

Init ==
    /\ running = TRUE
    /\ file = EmptyState
    /\ queue = <<>>
    /\ now = 1
    /\ nextId = 1
    /\ calls = 0
    /\ scan = ScanIdle
    /\ poll = PollIdle
    /\ probe = <<>>

\* Date.now() advances
Tick ==
    /\ \E t \in Instants : t > now /\ t <= MaxTime /\ now' = t
    /\ UNCHANGED <<file, queue, nextId, calls, scan, poll, probe, running>>

-----------------------------------------------------------------------------
(* The ledger API on its own: any sequence of recordOpen / recordClose calls *)

LedgerOpen ==
    /\ nextId <= MaxPositions
    /\ \E c \in LedgerCategories, s \in Sizes, e \in EntryPrices :
          file' = recordOpen(file, Position(nextId, c, s, e, e))
    /\ nextId' = nextId + 1
    /\ UNCHANGED <<queue, now, calls, scan, poll, probe, running>>

LedgerClose ==
    /\ calls < MaxCloses
    /\ calls' = calls + 1
    /\ \E id \in 1..MaxPositions, x \in ExitPrices :
          file' = recordClose(file, id, x, now)
    /\ UNCHANGED <<queue, now, nextId, scan, poll, probe, running>>

\* checkRisk(result, category, loadState()) at the current time
LedgerCheck ==
    /\ Len(probe) < MaxChecks
    /\ \E c \in LedgerCategories, s \in Sizes :
          probe' = Append(probe, [at |-> now, paused_until |-> file.paused_until,
                                  out |-> checkRisk(s, c, file, now)])
    /\ UNCHANGED <<file, queue, now, nextId, calls, scan, poll, running>>

NextLedger == LedgerOpen \/ LedgerClose \/ LedgerCheck \/ Tick

SpecLedger == Init /\ [][NextLedger]_vars

-----------------------------------------------------------------------------
(* checkRisk on its own: one call on a sampled ledger state *)

\* exposures around the caps (the headroom is 0, below a cent, below $1, above)
TotalSamples  == {0, 100 * USDC, 140 * USDC, 149 * USDC + 50 * CENT,
                  150 * USDC - 50, 150 * USDC, 160 * USDC}
BucketSamples == {0, 30 * USDC, 45 * USDC, 49 * USDC + 50 * CENT, 50 * USDC, 60 * USDC}
CountSamples  == {0, MAX_CONCURRENT_POSITIONS - 1, MAX_CONCURRENT_POSITIONS}
PausedSamples == {0, 1 + PAUSE_HOURS * HOUR}
\* result.size_usdc as kellySize can return it
ProposedSamples == {0, 50 * CENT, 1 * USDC, 52083, 12 * USDC + 3450, 20 * USDC, NaN}

\* a ledger with these aggregates; checkRisk reads nothing else of it
SampleState(total, bucket, count, paused) ==
    [open_positions |-> [i \in 1..count |-> Position(i, "weather", 0, 50, 50)],
     daily_pnl_usdc |-> 0,
     total_exposure_usdc |-> total,
     bucket_exposure |-> [c \in MarketCategory |-> IF c = "weather" THEN bucket ELSE 0],
     paused_until |-> paused]

InitRisk ==
    /\ running = TRUE
    /\ \E total \in TotalSamples, bucket \in BucketSamples,
          count \in CountSamples, paused \in PausedSamples :
          /\ bucket <= total
          /\ file = SampleState(total, bucket, count, paused)
    /\ now \in Instants
    /\ queue = <<>>
    /\ nextId = 1
    /\ calls = 0
    /\ scan = ScanIdle
    /\ poll = PollIdle
    /\ probe = <<>>

\* checkRisk(result, 'weather', state)
RiskCheck ==
    /\ probe = <<>>
    /\ \E s \in ProposedSamples :
          probe' = <<[at |-> now, paused_until |-> file.paused_until, size |-> s,
                      out |-> checkRisk(s, "weather", file, now)]>>
    /\ UNCHANGED <<file, queue, now, nextId, calls, scan, poll, running>>

NextRisk == RiskCheck

SpecRisk == InitRisk /\ [][NextRisk]_vars

-----------------------------------------------------------------------------
(* kellySize on its own: priceMarket attaches a size to a priced result *)

\* fair probabilities and implied prices in cents, the ends included
FairSamples    == 0..100
ImpliedSamples == 0..100
\* MAX_POSITION_PCT as the environment can set it, in percent (default 2)
PctSamples     == {MAX_POSITION_PCT, 5, 25}

\* MAX_POSITION_USDC of the configuration a run was started under
ConfiguredCap == (BANKROLL_USDC * probe[1].maxPct) \div 100

InitKelly ==
    /\ running = TRUE
    /\ \E f \in FairSamples, i \in ImpliedSamples, pct \in PctSamples :
          /\ scan = [ScanIdle EXCEPT !.opp = Opp("weather", "Yes", f, i, 0, 0)]
          /\ probe = <<[maxPct |-> pct]>>
    /\ file = EmptyState
    /\ queue = <<>>
    /\ now = 1
    /\ nextId = 1
    /\ calls = 0
    /\ poll = PollIdle

\* result.size_usdc = kellySize(result.fair_prob, result.implied_prob)
AttachKelly ==
    /\ scan.act = "none"
    /\ scan' = [scan EXCEPT
          !.sizeUsdc = kellySizeWith(scan.opp.fair_prob, scan.opp.implied_prob,
                                     BANKROLL_USDC, probe[1].maxPct),
          !.act = "sized"]
    /\ UNCHANGED <<file, queue, now, nextId, calls, poll, probe, running>>

NextKelly == AttachKelly

SpecKelly == InitKelly /\ [][NextKelly]_vars

-----------------------------------------------------------------------------
(* checkRisk then recordOpen, trade after trade, on a ledger that starts empty *)

MaxTrades == 3
TradeSizes == {30 * USDC, 10 * USDC}

InitBucket ==
    /\ running = TRUE
    /\ \E pct \in PctSamples : probe = <<[maxPct |-> pct]>>
    /\ file = EmptyState
    /\ queue = <<>>
    /\ now = 1
    /\ nextId = 1
    /\ calls = 0
    /\ scan = ScanIdle
    /\ poll = PollIdle

\* risk = checkRisk(result, category, loadState()); a refusal ends the trade
BucketCheck ==
    /\ scan.pc = "sleep"
    /\ calls < MaxTrades
    /\ calls' = calls + 1
    /\ \E c \in LedgerCategories, s \in TradeSizes :
         LET risk == checkRiskWith(s, c, file, now, ConfiguredCap) IN
         /\ probe' = <<probe[1], [proposed |-> s, category |-> c, out |-> risk]>>
         /\ scan' = [scan EXCEPT !.pc = IF risk.allowed THEN "order" ELSE "sleep",
                                  !.state = file,
                                  !.opp = Opp(c, "Yes", 50, 50, 0, 0),
                                  !.sizeUsdc = risk.sizeUsdc,
                                  !.act = IF risk.allowed THEN "none" ELSE "blocked"]
    /\ UNCHANGED <<file, queue, now, nextId, poll, running>>

\* recordOpen(state, position) with the approved size, and its saveState
BucketOpen ==
    /\ scan.pc = "order"
    /\ file' = recordOpen(scan.state,
                          Position(nextId, scan.opp.category, scan.sizeUsdc,
                                   scan.opp.implied_prob, scan.opp.fair_prob))
    /\ nextId' = nextId + 1
    /\ scan' = [scan EXCEPT !.pc = "sleep", !.act = "executed"]
    /\ UNCHANGED <<queue, now, calls, poll, probe, running>>

NextBucket == BucketCheck \/ BucketOpen

SpecBucket == InitBucket /\ [][NextBucket]_vars

-----------------------------------------------------------------------------
(* The binary arbitrage model and the scanner's filter in front of it.
   Token prices are in thousandths (1.0 is 1000), edge_percent in tenths of a
   percent, so that the 2.5% band and the filter's 0.975 / 1.025 are integers. *)

ONE == 1000
\* if (deviation < 2.5) return null
ARB_BAND == 25
\* if (sum >= 0.975 && sum <= 1.025) return false
FILTER_LOW  == 975
FILTER_HIGH == 1025

\* market.tokens.reduce((s, t) => s + t.price, 0)
RECURSIVE TokenSum(_)
TokenSum(tokens) ==
    IF tokens = <<>> THEN 0 ELSE Head(tokens) + TokenSum(Tail(tokens))

\* Math.abs
Abs(x) == IF x < 0 THEN 0 - x ELSE x

\* checkCryptoArb that also refuses a deviation of exactly the band
checkCryptoArb_StrictBand(market) ==
    LET sum == TokenSum(market.tokens)
        deviation == Abs(ONE - sum)
    IN  IF deviation <= ARB_BAND THEN <<>>
        ELSE IF sum > ONE THEN <<>>
        ELSE <<[side |-> "arb_both", fair_prob |-> ONE \div 2,
                implied_prob |-> sum \div 2, edge_percent |-> ONE - sum,
                confidence |-> 95, size_usdc |-> 0]>>

\* checkCryptoArb(market): <<>> for null, <<result>> for a result
checkCryptoArb(market) ==
    LET sum == TokenSum(market.tokens)
        deviation == Abs(ONE - sum)
    IN  IF deviation < ARB_BAND THEN <<>>
        ELSE IF sum > ONE THEN <<>>
        ELSE <<[side |-> "arb_both", fair_prob |-> ONE \div 2,
                implied_prob |-> sum \div 2, edge_percent |-> ONE - sum,
                confidence |-> 95, size_usdc |-> 0]>>

\* filterMarkets' rule for crypto binaries: TRUE when the market is kept
keepsCryptoBinary(market) ==
    LET sum == TokenSum(market.tokens)
    IN  ~(sum >= FILTER_LOW /\ sum <= FILTER_HIGH)

\* Yes and No prices of a crypto binary: sums from 0.89 to 1.06
YesPrices == 440..560
NoPrices  == {450, 500}

InitArb ==
    /\ running = TRUE
    /\ \E y \in YesPrices, n \in NoPrices :
          probe = <<[tokens |-> <<y, n>>, filtered |-> "no", priced |-> FALSE,
                     result |-> <<>>]>>
    /\ file = EmptyState
    /\ queue = <<>>
    /\ now = 1
    /\ nextId = 1
    /\ calls = 0
    /\ scan = ScanIdle
    /\ poll = PollIdle

\* filterMarkets on the market
FilterArb ==
    /\ probe[1].filtered = "no"
    /\ probe' = <<[probe[1] EXCEPT
                     !.filtered = IF keepsCryptoBinary(probe[1]) THEN "kept" ELSE "dropped"]>>
    /\ UNCHANGED <<file, queue, now, nextId, calls, scan, poll, running>>

\* priceMarket's case 'crypto_binary': result = checkCryptoArb(market)
PriceArb ==
    /\ ~probe[1].priced
    /\ probe' = <<[probe[1] EXCEPT !.priced = TRUE, !.result = checkCryptoArb(probe[1])]>>
    /\ UNCHANGED <<file, queue, now, nextId, calls, scan, poll, running>>

NextArb == FilterArb \/ PriceArb

SpecArb == InitArb /\ [][NextArb]_vars

-----------------------------------------------------------------------------
(* The pricing models and priceMarket. As for the arbitrage model, prices and
   probabilities are in thousandths and edge_percent in tenths of a percent;
   confidence is in points. A market is [category, tokens, hasYes, rewards]:
   the prices of its outcome tokens with the Yes token first, whether a token
   is labelled "Yes", and rewards_daily_rate. What the pricers fetch from
   outside is ext: the weather model's probability of Yes (ext.fair) from the
   forecast, its confidence by days ahead (ext.baseConf), whether the question
   parsed and a forecast was found (ext.ok), and the smart-money boost of the
   signals on the result's side (ext.boost). *)

MIN_EDGE_PCT           == 7
MIN_EDGE_SPONSORED_PCT == 4
MIN_CONFIDENCE         == 70
MAX_BOOSTED_CONFIDENCE == 99
CORRELATED_BAND        == 30     \* if (deviation < 3) return null
CORRELATED_CONFIDENCE  == 75
SPONSORED_CONFIDENCE   == 60

PricerResult(side, fair, implied, edge, conf) ==
    [side |-> side, fair_prob |-> fair, implied_prob |-> implied,
     edge_percent |-> edge, confidence |-> conf, size_usdc |-> 0]

\* priceWeatherMarket after its lookups: the Yes price against the forecast
priceWeatherMarket(market, ext) ==
    IF ~ext.ok THEN <<>>
    ELSE LET fairProb    == ext.fair
             impliedProb == IF market.hasYes THEN market.tokens[1] ELSE ONE \div 2
         IN  <<PricerResult(IF fairProb > impliedProb THEN "Yes" ELSE "No",
                            fairProb, impliedProb, Abs(fairProb - impliedProb),
                            ext.baseConf)>>

\* the lowest price of a non-empty sequence of prices
RECURSIVE LowestPrice(_)
LowestPrice(prices) ==
    IF Len(prices) = 1 THEN prices[1]
    ELSE LET rest == LowestPrice(Tail(prices))
         IN  IF prices[1] < rest THEN prices[1] ELSE rest

checkCorrelatedArb(market) ==
    LET n   == Len(market.tokens)
        sum == TokenSum(market.tokens)
        deviation == Abs(ONE - sum)
        Under(price) == price * n * 10 < ONE * 8      \* price < (1 / n) * 0.8
        underpriced == SelectSeq(market.tokens, Under)
    IN  IF deviation < CORRELATED_BAND THEN <<>>
        ELSE IF underpriced = <<>> THEN <<>>
        ELSE <<PricerResult("Yes", ONE \div n, LowestPrice(underpriced), deviation,
                            CORRELATED_CONFIDENCE)>>

priceSponsored(market) ==
    IF market.rewards = 0 THEN <<>>
    ELSE IF ~market.hasYes THEN <<>>
    ELSE LET impliedProb == market.tokens[1]
             fairProb    == ONE \div 2
         IN  <<PricerResult(IF impliedProb < ONE \div 2 THEN "Yes" ELSE "No",
                            fairProb, impliedProb, Abs(fairProb - impliedProb),
                            SPONSORED_CONFIDENCE)>>

\* the model of the market's category
ModelResult(market, ext) ==
    CASE market.category = "weather"       -> priceWeatherMarket(market, ext)
      [] market.category = "crypto_binary" -> checkCryptoArb(market)
      [] market.category = "correlated"    -> checkCorrelatedArb(market)
      [] market.category = "sponsored"     -> priceSponsored(market)
      [] OTHER -> <<>>

\* confidenceBoost counts the signals on result.side, which no signal has
\* when the side is 'arb_both'
Boosted(r, ext) ==
    IF r.side \in {"Yes", "No"} /\ ext.boost > 0
    THEN [r EXCEPT !.confidence = MathMin(@ + ext.boost, MAX_BOOSTED_CONFIDENCE)]
    ELSE r

\* priceMarket without the confidence filter
priceMarket_NoConfidenceFilter(market, ext) ==
    LET result == ModelResult(market, ext) IN
    IF result = <<>> THEN <<>>
    ELSE LET r == Boosted(result[1], ext)
             minEdge == IF market.category = "sponsored"
                        THEN MIN_EDGE_SPONSORED_PCT ELSE MIN_EDGE_PCT
         IN  IF r.edge_percent < minEdge * 10 THEN <<>>
             ELSE <<[r EXCEPT !.size_usdc =
                        kellySize(r.fair_prob \div 10, r.implied_prob \div 10)]>>

\* priceMarket(market): <<>> for null, <<result>> for a result
priceMarket(market, ext) ==
    LET result == ModelResult(market, ext) IN
    IF result = <<>> THEN <<>>
    ELSE LET r == Boosted(result[1], ext)
             minEdge == IF market.category = "sponsored"
                        THEN MIN_EDGE_SPONSORED_PCT ELSE MIN_EDGE_PCT
         IN  IF r.edge_percent < minEdge * 10 THEN <<>>
             ELSE IF r.confidence < MIN_CONFIDENCE THEN <<>>
             ELSE <<[r EXCEPT !.size_usdc =
                        kellySize(r.fair_prob \div 10, r.implied_prob \div 10)]>>

-----------------------------------------------------------------------------
(* The weather model's uncertainty: sigma in hundredths of a degree,
   multipliers in tenths, lead time (daysAhead) and band width in tenths of
   a day and of a degree, confidence in points. *)

BASE_SIGMA_F == 300       \* 3.0
BASE_SIGMA_C == 170       \* 1.7
NARROW_F == 20            \* 2.0
NARROW_C == 10            \* 1.0
NARROW_PENALTY == 15
CONFIDENCE_FLOOR == 50
EXACT_BAND == 10          \* bandWidth of an exact question: 1.0
UNBOUNDED_BAND == 1000000 \* Infinity: above / below

leadMult(daysAhead) ==
    IF daysAhead <= 10 THEN 6
    ELSE IF daysAhead <= 20 THEN 8
    ELSE IF daysAhead <= 30 THEN 10
    ELSE IF daysAhead <= 50 THEN 14
    ELSE 18

\* forecastSigma(unit, daysAhead) of pricer/weather.ts
forecastSigma(unit, daysAhead) ==
    ((IF unit = "F" THEN BASE_SIGMA_F ELSE BASE_SIGMA_C) * leadMult(daysAhead)) \div 10

\* the confidence by lead time
leadConf(daysAhead) ==
    IF daysAhead <= 10 THEN 80 ELSE IF daysAhead <= 20 THEN 75 ELSE 65

\* a narrow band that also tightens sigma
sigmaAndConf_NarrowTightens(unit, type, bandWidth, daysAhead) ==
    LET sigma == ((IF unit = "F" THEN BASE_SIGMA_F ELSE BASE_SIGMA_C)
                    * leadMult(daysAhead)) \div 10
        narrowThreshold == IF unit = "F" THEN NARROW_F ELSE NARROW_C
    IN  IF type = "exact" \/ (type = "range" /\ bandWidth <= narrowThreshold)
        THEN [sigma |-> (sigma * 8) \div 10,
              confidence |-> Max(leadConf(daysAhead) - NARROW_PENALTY, CONFIDENCE_FLOOR)]
        ELSE [sigma |-> sigma, confidence |-> leadConf(daysAhead)]

sigmaAndConf(unit, type, bandWidth, daysAhead) ==
    LET sigma == ((IF unit = "F" THEN BASE_SIGMA_F ELSE BASE_SIGMA_C)
                    * leadMult(daysAhead)) \div 10
        narrowThreshold == IF unit = "F" THEN NARROW_F ELSE NARROW_C
    IN  IF type = "exact" \/ (type = "range" /\ bandWidth <= narrowThreshold)
        THEN [sigma |-> sigma,
              confidence |-> Max(leadConf(daysAhead) - NARROW_PENALTY, CONFIDENCE_FLOOR)]
        ELSE [sigma |-> sigma, confidence |-> leadConf(daysAhead)]

TempUnits == {"F", "C"}
\* lead times on both sides of every tier, a target date already begun included
DaySamples == {0 - 5, 0, 5, 10, 11, 20, 21, 30, 31, 50, 51, 70}
\* parsed questions: type and band width (high - low for a range)
BandSamples ==
    {[type |-> "above", bandWidth |-> UNBOUNDED_BAND],
     [type |-> "below", bandWidth |-> UNBOUNDED_BAND],
     [type |-> "exact", bandWidth |-> EXACT_BAND]}
    \cup {[type |-> "range", bandWidth |-> w] : w \in {10, 11, 20, 21, 50}}

InitSigma ==
    /\ running = TRUE
    /\ \E unit \in TempUnits, band \in BandSamples, daysAhead \in DaySamples :
          probe = <<[unit |-> unit, type |-> band.type, bandWidth |-> band.bandWidth,
                     daysAhead |-> daysAhead, done |-> FALSE,
                     out |-> [sigma |-> 0, confidence |-> 0]]>>
    /\ file = EmptyState
    /\ queue = <<>>
    /\ now = 1
    /\ nextId = 1
    /\ calls = 0
    /\ scan = ScanIdle
    /\ poll = PollIdle

\* const { sigma, confidence } = sigmaAndConf(parsed.unit, parsed.type, bandWidth, daysAhead)
SigmaAndConf ==
    /\ ~probe[1].done
    /\ probe' = <<[probe[1] EXCEPT
                     !.done = TRUE,
                     !.out = sigmaAndConf(probe[1].unit, probe[1].type,
                                          probe[1].bandWidth, probe[1].daysAhead)]>>
    /\ UNCHANGED <<file, queue, now, nextId, calls, scan, poll, running>>

NextSigma == SigmaAndConf

SpecSigma == InitSigma /\ [][NextSigma]_vars

-----------------------------------------------------------------------------
(* intelligence/smartMoney: the confidence boost.  Win rates in percent. *)

MIN_WIN_RATE == 65
MAX_BOOST == 15

RECURSIVE SumWinRate(_)
SumWinRate(signals) ==
    IF signals = <<>> THEN 0
    ELSE Head(signals).win_rate + SumWinRate(Tail(signals))

\* Math.round(num / den), den > 0: the nearest integer, halves upwards
RoundDiv(num, den) == (2 * num + den) \div (2 * den)

\* the boost counted over the signals of both sides
confidenceBoost_AnySide(signals, side) ==
    IF Len(signals) = 0 THEN 0
    ELSE RoundDiv((SumWinRate(signals) - MIN_WIN_RATE * Len(signals)) * MAX_BOOST,
                  (100 - MIN_WIN_RATE) * Len(signals))

confidenceBoost(signals, side) ==
    LET aligned == SelectSeq(signals, LAMBDA sig : sig.side = side)
    IN  IF Len(aligned) = 0 THEN 0
        ELSE RoundDiv((SumWinRate(aligned) - MIN_WIN_RATE * Len(aligned)) * MAX_BOOST,
                      (100 - MIN_WIN_RATE) * Len(aligned))

\* wallet.win_rate: the qualifying wallets (>= MIN_WIN_RATE) and, for an
\* address not in the list, the rate carried by the activity record
WinRates == {50, 65, 72, 88, 100}
Signals == [side : {"Yes", "No"}, win_rate : WinRates]
SignalLists == {<<>>} \cup {<<a>> : a \in Signals}
                      \cup {<<a, b>> : a \in Signals, b \in Signals}
\* the side and confidence of the model results
BoostSides == {"Yes", "No", "arb_both"}
ModelConfidences == {50, 60, 65, 75, 80, 95}

InitBoost ==
    /\ running = TRUE
    /\ \E side \in BoostSides, confidence \in ModelConfidences, signals \in SignalLists :
          probe = <<[result |-> [side |-> side, confidence |-> confidence],
                     signals |-> signals, done |-> FALSE,
                     out |-> [side |-> side, confidence |-> confidence]]>>
    /\ file = EmptyState
    /\ queue = <<>>
    /\ now = 1
    /\ nextId = 1
    /\ calls = 0
    /\ scan = ScanIdle
    /\ poll = PollIdle

\* priceMarket: the smart money boost
SmartMoneyBoost ==
    /\ ~probe[1].done
    /\ probe' = <<[probe[1] EXCEPT
                     !.done = TRUE,
                     !.out = Boosted(probe[1].result,
                                     [boost |-> confidenceBoost(probe[1].signals,
                                                                probe[1].result.side)])]>>
    /\ UNCHANGED <<file, queue, now, nextId, calls, scan, poll, running>>

NextBoost == SmartMoneyBoost

SpecBoost == InitBoost /\ [][NextBoost]_vars

-----------------------------------------------------------------------------
(* scanner: categorise. A question is the set of the rule patterns its text
   contains; "none" stands for text that no pattern matches (such as
   "ukraine", which the word boundaries keep away from "rain"). *)

\* every tag of type MarketCategory
AllCategories ==
    {"crypto_binary", "weather", "politics", "macro", "entertainment",
     "sponsored", "correlated", "other"}

\* one word per regular expression of categorise; the crypto rule needs both
\* an asset name and a price phrase
Patterns == {"temperature", "bitcoin", "above_by", "election", "inflation", "nba"}

categorise_FlagFirst(raw) ==
    LET q == raw.question IN
    IF "temperature" \in q THEN "weather"
    ELSE IF raw.negRisk THEN "correlated"
    ELSE IF "bitcoin" \in q /\ "above_by" \in q THEN "crypto_binary"
    ELSE IF "election" \in q THEN "politics"
    ELSE IF "inflation" \in q THEN "macro"
    ELSE IF "nba" \in q THEN "entertainment"
    ELSE "other"

categorise(raw) ==
    LET q == raw.question IN
    IF "temperature" \in q THEN "weather"
    ELSE IF "bitcoin" \in q /\ "above_by" \in q THEN "crypto_binary"
    ELSE IF raw.negRisk THEN "correlated"
    ELSE IF "election" \in q THEN "politics"
    ELSE IF "inflation" \in q THEN "macro"
    ELSE IF "nba" \in q THEN "entertainment"
    ELSE "other"

InitCategorise ==
    /\ running = TRUE
    /\ \E q \in SUBSET Patterns, flag \in BOOLEAN :
          probe = <<[question |-> q, negRisk |-> flag, category |-> "none"]>>
    /\ file = EmptyState
    /\ queue = <<>>
    /\ now = 1
    /\ nextId = 1
    /\ calls = 0
    /\ scan = ScanIdle
    /\ poll = PollIdle

\* parseMarket: category: categorise(raw)
Categorise ==
    /\ probe[1].category = "none"
    /\ probe' = <<[probe[1] EXCEPT !.category = categorise(probe[1])]>>
    /\ UNCHANGED <<file, queue, now, nextId, calls, scan, poll, running>>

NextCategorise == Categorise

SpecCategorise == InitCategorise /\ [][NextCategorise]_vars

-----------------------------------------------------------------------------
(* scanner: filterMarkets. Expiry times are in minutes, NaN for an
   end_date_iso that does not parse; volume and liquidity in dollars; token
   prices in thousandths. *)

MIN_MARKET_VOLUME    == 10000
MIN_MARKET_LIQUIDITY == 1000
MIN_EXPIRY_MINUTES   == 60
MINUTES              == 60    \* minutes in one unit of the clock

\* m.tokens.every(t => t.price === 0)
AllZero(tokens) == \A i \in DOMAIN tokens : tokens[i] = 0

\* the filter's callback with "||" between the two floors
passesFilter_EitherFloor(m, t) ==
    LET minExpiry == t * MINUTES + MIN_EXPIRY_MINUTES IN
    IF m.expiry = NaN \/ m.expiry < minExpiry THEN FALSE
    ELSE IF m.volume < MIN_MARKET_VOLUME \/ m.liquidity < MIN_MARKET_LIQUIDITY THEN FALSE
    ELSE IF Len(m.tokens) < 2 THEN FALSE
    ELSE IF AllZero(m.tokens) THEN FALSE
    ELSE IF m.category = "crypto_binary" /\ ~keepsCryptoBinary(m) THEN FALSE
    ELSE TRUE

\* the filter's callback at time t: TRUE when m is kept
passesFilter(m, t) ==
    LET minExpiry == t * MINUTES + MIN_EXPIRY_MINUTES IN
    IF m.expiry = NaN \/ m.expiry < minExpiry THEN FALSE
    ELSE IF m.volume < MIN_MARKET_VOLUME /\ m.liquidity < MIN_MARKET_LIQUIDITY THEN FALSE
    ELSE IF Len(m.tokens) < 2 THEN FALSE
    ELSE IF AllZero(m.tokens) THEN FALSE
    ELSE IF m.category = "crypto_binary" /\ ~keepsCryptoBinary(m) THEN FALSE
    ELSE TRUE

\* filterMarkets(markets) at time t
filterMarkets(markets, t) ==
    LET Keep(m) == passesFilter(m, t) IN SelectSeq(markets, Keep)

\* the fields the filter reads, around each of its thresholds (the clock
\* stands at 1, so the earliest accepted expiry is minute 120)
ExpirySamples   == {NaN, 119, 120, 121}
VolumeSamples   == {MIN_MARKET_VOLUME - 1, MIN_MARKET_VOLUME}
LiquiditySamples == {MIN_MARKET_LIQUIDITY - 1, MIN_MARKET_LIQUIDITY}
TokenSamples    == {<<500>>, <<0, 0>>, <<450, 450>>, <<474, 500>>, <<475, 500>>,
                    <<525, 500>>, <<526, 500>>}
FilterCategories == {"crypto_binary", "weather"}
MarketSamples ==
    [expiry : ExpirySamples, volume : VolumeSamples, liquidity : LiquiditySamples,
     tokens : TokenSamples, category : FilterCategories]

\* a second market to follow the first one in the feed
SecondMarkets ==
    {[expiry |-> 121, volume |-> 10000, liquidity |-> 1000, tokens |-> <<450, 450>>,
      category |-> "crypto_binary"],
     [expiry |-> NaN, volume |-> 10000, liquidity |-> 1000, tokens |-> <<450, 450>>,
      category |-> "weather"],
     [expiry |-> 120, volume |-> 9999, liquidity |-> 1000, tokens |-> <<500, 500>>,
      category |-> "weather"]}

InitFilter ==
    /\ running = TRUE
    /\ \E m1 \in MarketSamples, m2 \in SecondMarkets :
          probe = <<[markets |-> <<m1, m2>>, done |-> FALSE, out |-> <<>>]>>
    /\ file = EmptyState
    /\ queue = <<>>
    /\ now = 1
    /\ nextId = 1
    /\ calls = 0
    /\ scan = ScanIdle
    /\ poll = PollIdle

\* scanMarkets: filtered = filterMarkets(all)
FilterMarkets ==
    /\ ~probe[1].done
    /\ probe' = <<[probe[1] EXCEPT !.done = TRUE,
                                   !.out = filterMarkets(probe[1].markets, now)]>>
    /\ UNCHANGED <<file, queue, now, nextId, calls, scan, poll, running>>

NextFilter == FilterMarkets

SpecFilter == InitFilter /\ [][NextFilter]_vars

-----------------------------------------------------------------------------
(* bot/index.ts: the scan loop *)

\* shouldAutoExecute without the size cap
shouldAutoExecute_NoSizeCap(result, sizeUsdc) ==
    /\ result.edge_percent >= AUTO_EXECUTE_EDGE_PCT
    /\ result.confidence >= AUTO_EXECUTE_CONFIDENCE

shouldAutoExecute(result, sizeUsdc) ==
    /\ result.edge_percent >= AUTO_EXECUTE_EDGE_PCT
    /\ result.confidence >= AUTO_EXECUTE_CONFIDENCE
    /\ sizeUsdc <= AUTO_EXECUTE_MAX_USDC

\* the position processMarket and handleCommand record for a filled buy
NewPosition(id, opp, sizeUsdc) ==
    Position(id, opp.category, sizeUsdc, opp.implied_prob, opp.fair_prob)

\* queueTrade: push, then drop the entries whose age reached the TTL
Fresh(t, at) == at - t.addedAt < TTL_HOURS * HOUR
queueTrade(q, opp, sizeUsdc, at) ==
    LET Keep(t) == Fresh(t, at)
    IN  SelectSeq(Append(q, [opp |-> opp, sizeUsdc |-> sizeUsdc, addedAt |-> at]), Keep)

\* recordClose(loadState(), ...) followed by its saveState: when no position
\* has the id, recordClose returns before saving and the file is left alone
CloseInFile(positionId, exitPrice) ==
    IF FindId(file.open_positions, positionId) = 0 THEN file
    ELSE recordClose(file, positionId, exitPrice, now)

isStopLoss(pos, currentPrice) == currentPrice * 100 < pos.entry_price * EXIT_STOP_LOSS_FRAC
\* take-profit that already fires at the threshold
isTakeProfit_AtThreshold(pos, currentPrice) ==
    currentPrice - pos.fair_prob >= EXIT_PROFIT_THRESHOLD

isTakeProfit(pos, currentPrice) == currentPrice - pos.fair_prob > EXIT_PROFIT_THRESHOLD

\* a cycle that skips checkExits while the ledger is paused
BeginCycle_SkipExitsWhenPaused ==
    /\ running
    /\ scan.pc = "sleep"
    /\ calls < MaxOps
    /\ calls' = calls + 1
    /\ LET open == IF file.paused_until # 0 /\ now < file.paused_until
                   THEN <<>> ELSE OpenOf(file) IN
       scan' = [ScanIdle EXCEPT !.pc = IF Len(open) = 0 THEN "markets" ELSE "exits",
                                !.open = open,
                                !.i = IF Len(open) = 0 THEN 0 ELSE 1]
    /\ UNCHANGED <<file, queue, now, nextId, poll, probe, running>>

\* main: a cycle starts; checkExits loads the ledger and keeps the open positions
BeginCycle ==
    /\ running                      \* while (running)
    /\ scan.pc = "sleep"
    /\ calls < MaxOps
    /\ calls' = calls + 1
    /\ LET open == OpenOf(file) IN
       scan' = [ScanIdle EXCEPT !.pc = IF Len(open) = 0 THEN "markets" ELSE "exits",
                                !.open = open,
                                !.i = IF Len(open) = 0 THEN 0 ELSE 1]
    /\ UNCHANGED <<file, queue, now, nextId, poll, probe, running>>

\* where checkExits goes after the position at scan.i
AfterExit(act, alert) ==
    IF scan.i < Len(scan.open)
    THEN [scan EXCEPT !.i = @ + 1, !.act = act, !.alert = alert]
    ELSE [scan EXCEPT !.pc = "markets", !.open = <<>>, !.i = 0, !.act = act, !.alert = alert]

\* checkExits, one position of the snapshot: no order book and not resolved,
\* or a live price with neither trigger, or a sell that does not fill
ExitSkip ==
    /\ scan.pc = "exits"
    /\ LET pos == scan.open[scan.i] IN
       \/ scan' = AfterExit("no_price", "none")
       \/ \E c \in LivePrices :
            /\ ~isTakeProfit(pos, c) /\ ~isStopLoss(pos, c)
            /\ scan' = AfterExit("hold", "none")
       \/ \E c \in LivePrices :
            /\ isTakeProfit(pos, c) \/ isStopLoss(pos, c)
            /\ scan' = AfterExit("sell_failed", "none")
    /\ UNCHANGED <<file, queue, now, nextId, calls, poll, probe, running>>

\* checkExits: no order book and the market resolved at terminal price x
ExitResolved ==
    /\ scan.pc = "exits"
    /\ LET pos == scan.open[scan.i] IN
       \E x \in ResolvedPrices :
            /\ file' = CloseInFile(pos.id, x)
            /\ scan' = AfterExit("resolved", "resolved")
    /\ UNCHANGED <<queue, now, nextId, calls, poll, probe, running>>

\* checkExits: a live price c triggers take-profit or stop-loss and the sell
\* at c * 0.9 fills
ExitSell ==
    /\ scan.pc = "exits"
    /\ LET pos == scan.open[scan.i] IN
       \E c \in LivePrices :
            /\ isTakeProfit(pos, c) \/ isStopLoss(pos, c)
            /\ file' = CloseInFile(pos.id, (c * 9) \div 10)
            /\ scan' = AfterExit("sold", "exit_alert")
    /\ UNCHANGED <<queue, now, nextId, calls, poll, probe, running>>

\* processMarket from "const state = loadState()" on, for the result opp of
\* priceMarket: refuse, queue, or go on to place the order
ProcessResult(opp) ==
    LET state == file
        risk  == checkRisk(kellySize(opp.fair_prob, opp.implied_prob),
                           opp.category, state, now)
    IN  IF ~risk.allowed
        THEN /\ scan' = [scan EXCEPT !.m = @ + 1, !.act = "refused", !.alert = "none"]
             /\ UNCHANGED queue
        ELSE IF shouldAutoExecute(opp, risk.sizeUsdc)
        THEN /\ scan' = [scan EXCEPT !.pc = "place", !.m = @ + 1, !.state = state, !.opp = opp,
                                     !.sizeUsdc = risk.sizeUsdc,
                                     !.act = "placing", !.alert = "none"]
             /\ UNCHANGED queue
        ELSE /\ Len(queue) < MaxQueue
             /\ queue' = queueTrade(queue, opp, risk.sizeUsdc, now)
             /\ scan' = [scan EXCEPT !.m = @ + 1, !.act = "queued", !.alert = "trade_alert"]

\* processMarket up to its await of placeOrder: priceMarket returned opp;
\* loadState, checkRisk, then refuse, queue, or go on to place the order
ProcessMarket ==
    /\ running                      \* if (!running) break
    /\ scan.pc = "markets"
    /\ calls < MaxOps
    /\ calls' = calls + 1
    /\ \E opp \in Opportunities : ProcessResult(opp)
    /\ UNCHANGED <<file, now, nextId, poll, probe, running>>

\* processMarket after placeOrder returned an order: recordOpen on the state
\* loaded before the await
PlaceOrderOk ==
    /\ scan.pc = "place"
    /\ nextId <= MaxPositions
    /\ file' = recordOpen(scan.state, NewPosition(nextId, scan.opp, scan.sizeUsdc))
    /\ nextId' = nextId + 1
    /\ scan' = [scan EXCEPT !.pc = "markets", !.state = EmptyState, !.opp = NoOpp,
                            !.sizeUsdc = 0, !.act = "opened", !.alert = "exec_confirm"]
    /\ UNCHANGED <<queue, now, calls, poll, probe, running>>

\* a failed order that is recorded all the same
PlaceOrderFail_Records ==
    /\ scan.pc = "place"
    /\ nextId <= MaxPositions
    /\ file' = recordOpen(scan.state, NewPosition(nextId, scan.opp, scan.sizeUsdc))
    /\ nextId' = nextId + 1
    /\ scan' = [scan EXCEPT !.pc = "markets", !.state = EmptyState, !.opp = NoOpp,
                            !.sizeUsdc = 0, !.act = "order_failed", !.alert = "none"]
    /\ UNCHANGED <<queue, now, calls, poll, probe, running>>

\* processMarket after placeOrder returned null
PlaceOrderFail ==
    /\ scan.pc = "place"
    /\ scan' = [scan EXCEPT !.pc = "markets", !.state = EmptyState, !.opp = NoOpp,
                            !.sizeUsdc = 0, !.act = "order_failed", !.alert = "none"]
    /\ UNCHANGED <<file, queue, now, nextId, calls, poll, probe, running>>

\* main: the markets of the cycle are done, sleep until the next one
EndCycle ==
    /\ scan.pc = "markets"
    /\ scan' = ScanIdle
    /\ UNCHANGED <<file, queue, now, nextId, calls, poll, probe, running>>

-----------------------------------------------------------------------------
(* approvals: handleCommand *)

\* approve that caps the accepted size at the per-position limit
Approve_Capped ==
    /\ poll.pc = "idle"
    /\ calls < MaxOps
    /\ calls' = calls + 1
    /\ \E ov \in Overrides :
         IF queue = <<>>
         THEN /\ poll' = [PollIdle EXCEPT !.reply = "no_pending"]
              /\ UNCHANGED queue
         ELSE /\ queue' = Tail(queue)
              /\ poll' = [PollIdle EXCEPT !.pc = "approve", !.cmd = "approve",
                                          !.trade = Head(queue).opp,
                                          !.sizeUsdc = MathMin(IF ov > 0 THEN ov
                                                               ELSE Head(queue).sizeUsdc,
                                                               MAX_POSITION_USDC),
                                          !.reply = "executing"]
    /\ UNCHANGED <<file, now, nextId, scan, probe, running>>

\* "approve" / "approve <n>": shift the oldest trade, then await placeOrder
Approve ==
    /\ poll.pc = "idle"
    /\ calls < MaxOps
    /\ calls' = calls + 1
    /\ \E ov \in Overrides :
         IF queue = <<>>
         THEN /\ poll' = [PollIdle EXCEPT !.reply = "no_pending"]
              /\ UNCHANGED queue
         ELSE /\ queue' = Tail(queue)
              /\ poll' = [PollIdle EXCEPT !.pc = "approve", !.cmd = "approve",
                                          !.trade = Head(queue).opp,
                                          !.sizeUsdc = IF ov > 0 THEN ov
                                                       ELSE Head(queue).sizeUsdc,
                                          !.reply = "executing"]
    /\ UNCHANGED <<file, now, nextId, scan, probe, running>>

\* an approved order recorded at no more than the per-position limit
ApproveOrderOk_Capped ==
    /\ poll.pc = "approve"
    /\ nextId <= MaxPositions
    /\ file' = recordOpen(file, NewPosition(nextId, poll.trade,
                                            MathMin(poll.sizeUsdc, MAX_POSITION_USDC)))
    /\ nextId' = nextId + 1
    /\ poll' = [PollIdle EXCEPT !.reply = "exec_confirm"]
    /\ UNCHANGED <<queue, now, calls, scan, probe, running>>

\* the order of an approved trade was placed: loadState, recordOpen
ApproveOrderOk ==
    /\ poll.pc = "approve"
    /\ nextId <= MaxPositions
    /\ file' = recordOpen(file, NewPosition(nextId, poll.trade, poll.sizeUsdc))
    /\ nextId' = nextId + 1
    /\ poll' = [PollIdle EXCEPT !.reply = "exec_confirm"]
    /\ UNCHANGED <<queue, now, calls, scan, probe, running>>

\* placeOrder returned null (or txHash 'error') for an approved trade
ApproveOrderFail ==
    /\ poll.pc = "approve"
    /\ poll' = [PollIdle EXCEPT !.reply = "order_failed"]
    /\ UNCHANGED <<file, queue, now, nextId, calls, scan, probe, running>>

\* "pending": listPending sends one line per entry of the queue
Pending ==
    /\ poll.pc = "idle"
    /\ calls < MaxOps
    /\ calls' = calls + 1
    /\ poll' = IF queue = <<>> THEN [PollIdle EXCEPT !.reply = "no_pending"]
               ELSE [PollIdle EXCEPT !.reply = "pending_list", !.shown = Len(queue)]
    /\ UNCHANGED <<file, queue, now, nextId, scan, probe, running>>

\* "reject" that drops the newest trade
Reject_Newest ==
    /\ poll.pc = "idle"
    /\ calls < MaxOps
    /\ calls' = calls + 1
    /\ IF queue = <<>>
       THEN /\ poll' = [PollIdle EXCEPT !.reply = "no_pending"]
            /\ UNCHANGED queue
       ELSE /\ queue' = SubSeq(queue, 1, Len(queue) - 1)
            /\ poll' = [PollIdle EXCEPT !.reply = "rejected"]
    /\ UNCHANGED <<file, now, nextId, scan, probe, running>>

\* "reject": drop the oldest trade
Reject ==
    /\ poll.pc = "idle"
    /\ calls < MaxOps
    /\ calls' = calls + 1
    /\ IF queue = <<>>
       THEN /\ poll' = [PollIdle EXCEPT !.reply = "no_pending"]
            /\ UNCHANGED queue
       ELSE /\ queue' = Tail(queue)
            /\ poll' = [PollIdle EXCEPT !.reply = "rejected"]
    /\ UNCHANGED <<file, now, nextId, scan, probe, running>>

\* "reject all"
RejectAll ==
    /\ poll.pc = "idle"
    /\ calls < MaxOps
    /\ calls' = calls + 1
    /\ queue' = <<>>
    /\ poll' = [PollIdle EXCEPT !.reply = "cleared"]
    /\ UNCHANGED <<file, now, nextId, scan, probe, running>>

-----------------------------------------------------------------------------
(* The approval queue on its own: queueTrade calls and the queue commands *)

\* sizes checkRisk approves for the opportunities on an empty ledger
QueuedSizes == {20 * USDC, 10 * USDC}

\* queueTrade(result, market, sizeUsdc), as processMarket calls it
QueueTrade ==
    /\ scan.m < MaxEnqueues
    /\ \E opp \in Opportunities, sz \in QueuedSizes :
          queue' = queueTrade(queue, opp, sz, now)
    /\ scan' = [scan EXCEPT !.m = @ + 1, !.act = "queued", !.alert = "trade_alert"]
    /\ UNCHANGED <<file, now, nextId, calls, poll, probe, running>>

NextQueue ==
    \/ QueueTrade \/ Pending \/ Approve \/ ApproveOrderOk \/ ApproveOrderFail
    \/ Reject \/ RejectAll \/ Tick

SpecQueue == Init /\ [][NextQueue]_vars

-----------------------------------------------------------------------------
(* menu: handleCallback *)

\* cl:<idx>, ad:<idx>:10, rd:<idx>:5: loadState, pick open[idx], then await
\* the price and the order
Callback ==
    /\ poll.pc = "idle"
    /\ calls < MaxOps
    /\ calls' = calls + 1
    /\ \E cmd \in {"cl", "ad", "rd"}, idx \in 0..(MaxPositions - 1) :
         LET open == OpenOf(file) IN
         IF idx >= Len(open)
         THEN poll' = [PollIdle EXCEPT !.reply = "not_found"]
         ELSE poll' = [PollIdle EXCEPT !.pc = "callback", !.cmd = cmd,
                                       !.pos = open[idx + 1], !.reply = "ack"]
    /\ UNCHANGED <<file, queue, now, nextId, scan, probe, running>>

\* no order book, or the order was not placed: nothing is written
CallbackFail ==
    /\ poll.pc = "callback"
    /\ \E r \in {"no_book", "callback_failed"} :
          poll' = [PollIdle EXCEPT !.reply = r]
    /\ UNCHANGED <<file, queue, now, nextId, calls, scan, probe, running>>

\* cl: the sell at currentPrice * 0.85 filled: recordClose on a fresh state
CallbackClose ==
    /\ poll.pc = "callback" /\ poll.cmd = "cl"
    /\ \E c \in MenuPrices : file' = CloseInFile(poll.pos.id, (c * 85) \div 100)
    /\ poll' = [PollIdle EXCEPT !.reply = "closed"]
    /\ UNCHANGED <<queue, now, nextId, calls, scan, probe, running>>

\* ad: the buy was posted: the exposures of a fresh state grow by amt
CallbackAdd ==
    /\ poll.pc = "callback" /\ poll.cmd = "ad"
    /\ file' = [file EXCEPT !.total_exposure_usdc = @ + AD_AMOUNT,
                            !.bucket_exposure[poll.pos.category] = @ + AD_AMOUNT]
    /\ poll' = [PollIdle EXCEPT !.reply = "increased"]
    /\ UNCHANGED <<queue, now, nextId, calls, scan, probe, running>>

\* rd: the partial sell filled: exposures and the position's size shrink by amt
CallbackReduce ==
    /\ poll.pc = "callback" /\ poll.cmd = "rd"
    /\ LET k == FindId(file.open_positions, poll.pos.id)
           reduced == [file EXCEPT
               !.total_exposure_usdc = Max(0, @ - RD_AMOUNT),
               !.bucket_exposure[poll.pos.category] = Max(0, @ - RD_AMOUNT)]
       IN  file' = IF k = 0 THEN reduced
                   ELSE [reduced EXCEPT !.open_positions[k].size_usdc = @ - RD_AMOUNT]
    /\ poll' = [PollIdle EXCEPT !.reply = "reduced"]
    /\ UNCHANGED <<queue, now, nextId, calls, scan, probe, running>>

-----------------------------------------------------------------------------

ScanNext ==
    \/ BeginCycle \/ ExitSkip \/ ExitResolved \/ ExitSell
    \/ ProcessMarket \/ PlaceOrderOk \/ PlaceOrderFail \/ EndCycle

PollNext ==
    \/ Pending \/ Approve \/ ApproveOrderOk \/ ApproveOrderFail \/ Reject \/ RejectAll
    \/ Callback \/ CallbackFail \/ CallbackClose \/ CallbackAdd \/ CallbackReduce

Next == ScanNext \/ PollNext \/ Tick

Spec == Init /\ [][Next]_vars

-----------------------------------------------------------------------------
(* The position menu: the message rendered by buildMenuPayload stays in the
   chat with its buttons while the scan loop opens and closes positions.
   probe[1].rows is the id of the position shown in each row of the last
   rendered menu (row i carries cl:i-1, ad:i-1:10, rd:i-1:5); probe[1].press
   is the last press of one of its buttons: the row's index, the position
   that was shown there and the position handleCallback picked (0: none). *)

\* buildMenuPayload: one row of buttons per open position, in list order
MenuRows(state) == [i \in 1..Len(OpenOf(state)) |-> OpenOf(state)[i].id]

NoPress == [cmd |-> "none", idx |-> 0, shown |-> 0, picked |-> 0]

InitMenu ==
    /\ running = TRUE
    /\ file = EmptyState
    /\ queue = <<>>
    /\ now = 1
    /\ nextId = 1
    /\ calls = 0
    /\ scan = ScanIdle
    /\ poll = PollIdle
    /\ probe = <<[rows |-> MenuRows(EmptyState), press |-> NoPress]>>

\* the scan loop records a new position
MenuOpen ==
    /\ nextId <= MaxPositions
    /\ \E c \in {"weather", "sponsored"} :
          file' = recordOpen(file, Position(nextId, c, 10 * USDC, 50, 65))
    /\ nextId' = nextId + 1
    /\ UNCHANGED <<queue, now, calls, scan, poll, probe, running>>

\* checkExits closes an open position
MenuExit ==
    /\ \E i \in 1..Len(OpenOf(file)), x \in ResolvedPrices :
          file' = CloseInFile(OpenOf(file)[i].id, x)
    /\ UNCHANGED <<queue, now, nextId, calls, scan, poll, probe, running>>

\* sendMenu ('menu') or refreshMenu ('rf'): the message shows the open list
SendMenu ==
    /\ poll.pc = "idle"
    /\ probe' = <<[probe[1] EXCEPT !.rows = MenuRows(file)]>>
    /\ UNCHANGED <<file, queue, now, nextId, calls, scan, poll, running>>

\* a button of the rendered menu is pressed: handleCallback loads the ledger
\* and takes open[idx] of the list as it is now
PressButton ==
    /\ poll.pc = "idle"
    /\ calls < MaxChecks
    /\ calls' = calls + 1
    /\ \E cmd \in {"cl", "ad", "rd"}, row \in 1..Len(probe[1].rows) :
         LET open == OpenOf(file)
             idx == row - 1
         IN  IF idx >= Len(open)
             THEN /\ poll' = [PollIdle EXCEPT !.reply = "not_found"]
                  /\ probe' = <<[probe[1] EXCEPT
                                   !.press = [cmd |-> cmd, idx |-> idx,
                                              shown |-> probe[1].rows[row],
                                              picked |-> 0]]>>
             ELSE /\ poll' = [PollIdle EXCEPT !.pc = "callback", !.cmd = cmd,
                                              !.pos = open[idx + 1], !.reply = "ack"]
                  /\ probe' = <<[probe[1] EXCEPT
                                   !.press = [cmd |-> cmd, idx |-> idx,
                                              shown |-> probe[1].rows[row],
                                              picked |-> open[idx + 1].id]]>>
    /\ UNCHANGED <<file, queue, now, nextId, scan, running>>

\* no order book, or the order was not placed: no write, no refresh
PressFails ==
    /\ poll.pc = "callback"
    /\ \E r \in {"no_book", "callback_failed"} :
          poll' = [PollIdle EXCEPT !.reply = r]
    /\ UNCHANGED <<file, queue, now, nextId, calls, scan, probe, running>>

\* the order of the pressed button filled: the ledger write of its branch,
\* then refreshMenu(messageId), whose failure is caught and leaves the message
PressDone ==
    /\ poll.pc = "callback"
    /\ LET k == FindId(file.open_positions, poll.pos.id)
           added == [file EXCEPT
               !.total_exposure_usdc = @ + AD_AMOUNT,
               !.bucket_exposure[poll.pos.category] = @ + AD_AMOUNT]
           lowered == [file EXCEPT
               !.total_exposure_usdc = Max(0, @ - RD_AMOUNT),
               !.bucket_exposure[poll.pos.category] = Max(0, @ - RD_AMOUNT)]
           reduced == IF k = 0 THEN lowered
                      ELSE [lowered EXCEPT !.open_positions[k].size_usdc = @ - RD_AMOUNT]
       IN  \E c \in MenuPrices, edited \in BOOLEAN :
             /\ file' = CASE poll.cmd = "cl" -> CloseInFile(poll.pos.id, (c * 85) \div 100)
                           [] poll.cmd = "ad" -> added
                           [] OTHER -> reduced
             /\ probe' = IF edited THEN <<[probe[1] EXCEPT !.rows = MenuRows(file')]>>
                         ELSE probe
    /\ poll' = [PollIdle EXCEPT !.reply = CASE poll.cmd = "cl" -> "closed"
                                            [] poll.cmd = "ad" -> "increased"
                                            [] OTHER -> "reduced"]
    /\ UNCHANGED <<queue, now, nextId, calls, scan, running>>

NextMenu == MenuOpen \/ MenuExit \/ SendMenu \/ PressButton \/ PressFails \/ PressDone

SpecMenu == InitMenu /\ [][NextMenu]_vars

-----------------------------------------------------------------------------
(* processMarket on one priced result and one ledger: the Kelly size
   priceMarket attached, the risk check, then the order or the queue.
   Probabilities in cents, edge in percent. *)

\* fair and Yes-token probabilities of the results
SizedFairs == {5, 35, 50, 65, 95}
SizedImplieds == {5, 50, 60, 72, 95, 100}

\* weather: side = fairProb > impliedProb ? 'Yes' : 'No', edge at least MIN_EDGE_PCT
\* sponsored: fair 0.5, side = impliedProb < 0.5 ? 'Yes' : 'No', edge at
\* least MIN_EDGE_SPONSORED_PCT
SizedResults ==
    {Opp("weather", IF f > i THEN "Yes" ELSE "No", f, i, Abs(f - i), conf) :
        f \in SizedFairs, i \in SizedImplieds, conf \in {75, 90}}
    \cup {Opp("sponsored", IF i < 50 THEN "Yes" ELSE "No", 50, i, Abs(50 - i), 75) :
        i \in SizedImplieds}

\* ledgers: empty, $5 of room, no room, all position slots taken, paused
SizedLedgers ==
    {SampleState(total, 0, count, paused) :
        total \in {0, MAX_TOTAL_EXPOSURE_USDC - 5 * USDC, MAX_TOTAL_EXPOSURE_USDC},
        count \in {0, MAX_CONCURRENT_POSITIONS},
        paused \in {0, 1 + PAUSE_HOURS * HOUR}}

InitSized ==
    /\ running = TRUE
    /\ \E opp \in SizedResults, state \in SizedLedgers :
          /\ opp.edge_percent * 10 >=
                (IF opp.category = "sponsored" THEN MIN_EDGE_SPONSORED_PCT ELSE MIN_EDGE_PCT)
          /\ probe = <<[result |-> opp, done |-> FALSE, size_usdc |-> 0,
                        risk |-> [allowed |-> FALSE, reason |-> "none", sizeUsdc |-> 0]]>>
          /\ file = state
    /\ queue = <<>>
    /\ now = 1
    /\ nextId = MAX_CONCURRENT_POSITIONS + 1
    /\ calls = 0
    /\ scan = [ScanIdle EXCEPT !.pc = "markets"]
    /\ poll = PollIdle

\* processMarket(market) from the result of priceMarket to the await of placeOrder
ProcessSized ==
    /\ ~probe[1].done
    /\ scan.pc = "markets"
    /\ ProcessResult(probe[1].result)
    /\ probe' = <<[probe[1] EXCEPT
                     !.done = TRUE,
                     !.size_usdc = kellySize(probe[1].result.fair_prob,
                                             probe[1].result.implied_prob),
                     !.risk = checkRisk(kellySize(probe[1].result.fair_prob,
                                                  probe[1].result.implied_prob),
                                        probe[1].result.category, file, now)]>>
    /\ UNCHANGED <<file, now, nextId, calls, poll, running>>

\* placeOrder returned an order: recordOpen
SizedOrderOk ==
    /\ scan.pc = "place"
    /\ file' = recordOpen(scan.state, NewPosition(nextId, scan.opp, scan.sizeUsdc))
    /\ nextId' = nextId + 1
    /\ scan' = [scan EXCEPT !.pc = "sleep", !.act = "opened", !.alert = "exec_confirm"]
    /\ UNCHANGED <<queue, now, calls, poll, probe, running>>

\* placeOrder returned null
SizedOrderFail ==
    /\ scan.pc = "place"
    /\ scan' = [scan EXCEPT !.pc = "sleep", !.act = "order_failed", !.alert = "none"]
    /\ UNCHANGED <<file, queue, now, nextId, calls, poll, probe, running>>

NextSized == ProcessSized \/ SizedOrderOk \/ SizedOrderFail

SpecSized == InitSized /\ [][NextSized]_vars

-----------------------------------------------------------------------------
(* The poller on one update of the authorized chat: the dispatch of poll,
   handleCommand and handleCallback. A text is its words, already trimmed and
   lower-cased; callback data is <cmd>:<idx>[:<amt>] with idx NaN when there
   is no number after the code. poll.reply is the last message or callback
   answer sent, "none" when nothing was sent. *)

Texts ==
    {<<"menu">>, <<"/menu">>, <<"balance">>, <<"pnl">>, <<"status">>,
     <<"pending">>, <<"/pending">>, <<"reject", "all">>, <<"reject">>, <<"rejected">>,
     <<"approve">>, <<"approve", "5">>, <<"help">>, <<"/start">>, <<"yes">>, <<>>}

\* text.startsWith(prefix), for the two prefixes handleCommand tests
StartsWith(text, prefix) ==
    /\ text # <<>>
    /\ \/ text[1] = prefix
       \/ prefix = "reject" /\ text[1] = "rejected"

CallbackCodes == {"rf", "bl", "pd", "cl", "ad", "rd", "zz"}
CallbackIndexes == {NaN, 0, 1, 2}
CallbackData == [cmd : CallbackCodes, idx : CallbackIndexes]

\* parts[1] ? parseFloat(parts[1]) : null, in ledger units, 0 for none
OverrideOf(text) == IF Len(text) >= 2 /\ text[2] = "5" THEN 5 * USDC ELSE 0

\* the ledger with k open positions
RECURSIVE LedgerWith(_)
LedgerWith(k) ==
    IF k = 0 THEN EmptyState
    ELSE recordOpen(LedgerWith(k - 1),
                    Position(k, "weather", 10 * USDC, 50, 65))

InitCommand ==
    /\ running = TRUE
    /\ \E k \in 0..MaxPositions :
          /\ file = LedgerWith(k)
          /\ nextId = k + 1
    /\ \E q \in {<<>>} \cup {<<[opp |-> o, sizeUsdc |-> 10 * USDC, addedAt |-> 1]>> :
                                  o \in Opportunities} :
          queue = q
    /\ \/ \E text \in Texts :
             probe = <<[kind |-> "text", text |-> text,
                        data |-> [cmd |-> "none", idx |-> NaN], handled |-> FALSE]>>
       \/ \E data \in CallbackData :
             probe = <<[kind |-> "callback", text |-> <<>>, data |-> data,
                        handled |-> FALSE]>>
    /\ now = 1
    /\ calls = 0
    /\ scan = ScanIdle
    /\ poll = PollIdle

\* poll's dispatch of a text message, then handleCommand
HandleText ==
    /\ probe[1].kind = "text" /\ ~probe[1].handled
    /\ probe' = <<[probe[1] EXCEPT !.handled = TRUE]>>
    /\ LET text == probe[1].text IN
       CASE text \in {<<"menu">>, <<"/menu">>} ->
              poll' = [PollIdle EXCEPT !.reply = "menu"] /\ UNCHANGED queue
         [] text = <<"balance">> ->
              poll' = [PollIdle EXCEPT !.reply = "balance"] /\ UNCHANGED queue
         [] text = <<"pnl">> ->
              poll' = [PollIdle EXCEPT !.reply = "pnl"] /\ UNCHANGED queue
         [] text = <<"status">> ->
              poll' = [PollIdle EXCEPT !.reply = "status"] /\ UNCHANGED queue
         [] text \in {<<"pending">>, <<"/pending">>} ->
              /\ poll' = IF queue = <<>> THEN [PollIdle EXCEPT !.reply = "no_pending"]
                         ELSE [PollIdle EXCEPT !.reply = "pending_list",
                                               !.shown = Len(queue)]
              /\ UNCHANGED queue
         [] text = <<"reject", "all">> ->
              queue' = <<>> /\ poll' = [PollIdle EXCEPT !.reply = "cleared"]
         [] text # <<"reject", "all">> /\ StartsWith(text, "reject") ->
              IF queue = <<>>
              THEN poll' = [PollIdle EXCEPT !.reply = "no_pending"] /\ UNCHANGED queue
              ELSE queue' = Tail(queue) /\ poll' = [PollIdle EXCEPT !.reply = "rejected"]
         [] StartsWith(text, "approve") ->
              IF queue = <<>>
              THEN poll' = [PollIdle EXCEPT !.reply = "no_pending"] /\ UNCHANGED queue
              ELSE /\ queue' = Tail(queue)
                   /\ poll' = [PollIdle EXCEPT
                         !.pc = "approve", !.cmd = "approve",
                         !.trade = Head(queue).opp,
                         !.sizeUsdc = IF OverrideOf(text) > 0 THEN OverrideOf(text)
                                      ELSE Head(queue).sizeUsdc,
                         !.reply = "executing"]
         [] OTHER ->
              \* handleCommand ends without a branch taken: nothing is sent
              poll' = PollIdle /\ UNCHANGED queue
    /\ UNCHANGED <<file, now, nextId, calls, scan, running>>

\* handleCallback up to its first await of a price or an order
HandleCallback ==
    /\ probe[1].kind = "callback" /\ ~probe[1].handled
    /\ probe' = <<[probe[1] EXCEPT !.handled = TRUE]>>
    /\ LET data == probe[1].data
           open == OpenOf(file)
       IN  poll' =
             CASE data.cmd = "rf" /\ data.idx = NaN -> [PollIdle EXCEPT !.reply = "refreshing"]
               [] data.cmd = "bl" /\ data.idx = NaN -> [PollIdle EXCEPT !.reply = "balance"]
               [] data.cmd = "pd" /\ data.idx = NaN -> [PollIdle EXCEPT !.reply = "send_pending"]
               [] OTHER ->
                    IF data.idx = NaN \/ data.idx < 0 \/ data.idx >= Len(open)
                    THEN [PollIdle EXCEPT !.reply = "not_found"]
                    ELSE IF data.cmd \in {"cl", "ad", "rd"}
                    THEN [PollIdle EXCEPT !.pc = "callback", !.cmd = data.cmd,
                                          !.pos = open[data.idx + 1], !.reply = "ack"]
                    ELSE [PollIdle EXCEPT !.reply = "unknown_action"]
    /\ UNCHANGED <<file, queue, now, nextId, calls, scan, running>>

NextCommand ==
    \/ HandleText \/ ApproveOrderOk \/ ApproveOrderFail
    \/ HandleCallback \/ CallbackFail \/ CallbackClose \/ CallbackAdd \/ CallbackReduce

SpecCommand == InitCommand /\ [][NextCommand]_vars

-----------------------------------------------------------------------------
(* poll's loop body on one update of any chat: lastUpdateId, the chat test,
   then the handler.  probe[1].chat is String(chat.id ?? ''), probe[1].taken
   says that the loop has reached the update, probe[1].handled that no
   handler remains to be run for it. *)

TELEGRAM_CHAT_ID == "owner"
Chats == {"owner", "stranger", ""}
UPDATE_ID == 7

InitChat ==
    /\ running = TRUE
    /\ \E k \in 0..MaxPositions :
          /\ file = LedgerWith(k)
          /\ nextId = k + 1
    /\ \E q \in {<<>>} \cup {<<[opp |-> o, sizeUsdc |-> 10 * USDC, addedAt |-> 1]>> :
                                  o \in Opportunities} :
          queue = q
    /\ \E chat \in Chats :
          \/ \E text \in {<<"menu">>, <<"pending">>, <<"reject", "all">>, <<"reject">>,
                           <<"approve">>, <<"approve", "5">>, <<"help">>} :
                probe = <<[kind |-> "text", text |-> text,
                           data |-> [cmd |-> "none", idx |-> NaN], handled |-> TRUE,
                           chat |-> chat, taken |-> FALSE, lastUpdateId |-> 0]>>
          \/ \E data \in [cmd : {"rf", "cl", "ad", "rd"}, idx : {NaN, 0}] :
                probe = <<[kind |-> "callback", text |-> <<>>, data |-> data,
                           handled |-> TRUE,
                           chat |-> chat, taken |-> FALSE, lastUpdateId |-> 0]>>
    /\ now = 1
    /\ calls = 0
    /\ scan = ScanIdle
    /\ poll = PollIdle

\* the loop takes the update and hands it to a handler whatever its chat
PollTake_AnyChat ==
    /\ ~probe[1].taken
    /\ probe' = <<[probe[1] EXCEPT !.taken = TRUE, !.lastUpdateId = UPDATE_ID,
                                   !.handled = FALSE]>>
    /\ UNCHANGED <<file, queue, now, nextId, calls, scan, poll, running>>

\* lastUpdateId = update.update_id; if (chatId !== TELEGRAM_CHAT_ID) continue
PollTake ==
    /\ ~probe[1].taken
    /\ probe' = <<[probe[1] EXCEPT !.taken = TRUE, !.lastUpdateId = UPDATE_ID,
                                   !.handled = (probe[1].chat # TELEGRAM_CHAT_ID)]>>
    /\ UNCHANGED <<file, queue, now, nextId, calls, scan, poll, running>>

NextChat ==
    \/ PollTake
    \/ HandleText \/ ApproveOrderOk \/ ApproveOrderFail
    \/ HandleCallback \/ CallbackFail \/ CallbackClose \/ CallbackAdd \/ CallbackReduce

SpecChat == InitChat /\ [][NextChat]_vars

-----------------------------------------------------------------------------
(* The poller as a loop: startApprovalPoller, poll, stopApprovalPoller.
   Telegram numbers the updates 1, 2, ... as they arrive (nextId is the next
   number) and getUpdates(offset) returns, in order, those numbered offset
   and up. Here poll is [pc, polling, lastUpdateId, batch, k]: pc "timer"
   while the next poll is scheduled or starting, "batch" between two updates
   of res.data.result, "handling" inside the awaited handler of batch[k],
   "ended" after poll returned without scheduling. probe logs the handler
   runs, calls counts the failures. *)

MaxUpdates == 3

PollerStart ==
    [pc |-> "timer", polling |-> TRUE, lastUpdateId |-> 0, batch |-> <<>>, k |-> 0]

InitPoller ==
    /\ running = TRUE
    /\ poll = PollerStart
    /\ probe = <<>>
    /\ nextId = 1
    /\ calls = 0
    /\ file = EmptyState
    /\ queue = <<>>
    /\ now = 1
    /\ scan = ScanIdle

\* the chat sends a message or presses a button
UpdateArrives ==
    /\ nextId <= MaxUpdates
    /\ nextId' = nextId + 1
    /\ UNCHANGED <<file, queue, now, calls, scan, poll, probe, running>>

\* poll: if (!polling) return
PollReturns ==
    /\ poll.pc = "timer" /\ ~poll.polling
    /\ poll' = [poll EXCEPT !.pc = "ended"]
    /\ UNCHANGED <<file, queue, now, nextId, calls, scan, probe, running>>

\* poll: getUpdates answered; with nothing to handle the next poll is scheduled
PollFetch ==
    /\ poll.pc = "timer" /\ poll.polling
    /\ nextId > poll.lastUpdateId + 1
    /\ poll' = [poll EXCEPT !.pc = "batch", !.k = 1,
                            !.batch = [i \in 1..(nextId - 1 - poll.lastUpdateId) |->
                                          poll.lastUpdateId + i]]
    /\ UNCHANGED <<file, queue, now, nextId, calls, scan, probe, running>>

\* poll: getUpdates failed; catch, setTimeout(poll, 5_000)
PollFetchFails ==
    /\ poll.pc = "timer" /\ poll.polling
    /\ calls < MaxThrows
    /\ calls' = calls + 1
    /\ UNCHANGED <<file, queue, now, nextId, scan, poll, probe, running>>

\* the loop takes the next update: lastUpdateId = update.update_id, then
\* awaits its handler
HandleBegin_AdvanceAfterBatch ==
    /\ poll.pc = "batch"
    /\ poll' = [poll EXCEPT !.pc = "handling"]
    /\ probe' = Append(probe, [id |-> poll.batch[poll.k], state |-> "running"])
    /\ UNCHANGED <<file, queue, now, nextId, calls, scan, running>>

HandleBegin ==
    /\ poll.pc = "batch"
    /\ poll' = [poll EXCEPT !.pc = "handling", !.lastUpdateId = poll.batch[poll.k]]
    /\ probe' = Append(probe, [id |-> poll.batch[poll.k], state |-> "running"])
    /\ UNCHANGED <<file, queue, now, nextId, calls, scan, running>>

\* the handler returned: the next update, or setTimeout(poll, 5_000)
HandleEnd ==
    /\ poll.pc = "handling"
    /\ probe' = [probe EXCEPT ![Len(probe)].state = "done"]
    /\ poll' = IF poll.k < Len(poll.batch)
               THEN [poll EXCEPT !.pc = "batch", !.k = @ + 1]
               ELSE [poll EXCEPT !.pc = "timer", !.batch = <<>>, !.k = 0]
    /\ UNCHANGED <<file, queue, now, nextId, calls, scan, running>>

\* the handler threw: catch, the rest of the batch is left, setTimeout(poll, 5_000)
HandleFails ==
    /\ poll.pc = "handling"
    /\ calls < MaxThrows
    /\ calls' = calls + 1
    /\ probe' = [probe EXCEPT ![Len(probe)].state = "failed"]
    /\ poll' = [poll EXCEPT !.pc = "timer", !.batch = <<>>, !.k = 0]
    /\ UNCHANGED <<file, queue, now, nextId, scan, running>>

\* SIGINT, SIGTERM or the control server: running = false; stopApprovalPoller()
StopPoller ==
    /\ poll.polling
    /\ poll' = [poll EXCEPT !.polling = FALSE]
    /\ running' = FALSE
    /\ UNCHANGED <<file, queue, now, nextId, calls, scan, probe>>

NextPoller ==
    \/ UpdateArrives \/ PollReturns \/ PollFetch \/ PollFetchFails
    \/ HandleBegin \/ HandleEnd \/ HandleFails \/ StopPoller

SpecPoller == InitPoller /\ [][NextPoller]_vars

-----------------------------------------------------------------------------
(* A negRisk group through the scanner and the pricer: the member markets
   share a negRiskMarketID, each has a Yes and a No token (prices in
   thousandths, Yes first) and is categorised "correlated"; processMarket
   prices each member on its own. *)

NEG_RISK_BAND == 30       \* if (deviation > 3)

GroupYesPrices == {300, 350, 500}
GroupNoPrices  == {500, 600, 650}
GroupMembers   == [tokens : GroupYesPrices \X GroupNoPrices]
GroupSamples   == (GroupMembers \X GroupMembers)
                  \cup (GroupMembers \X GroupMembers \X GroupMembers)

\* the sum of the members' Yes prices
RECURSIVE YesSum(_)
YesSum(group) ==
    IF group = <<>> THEN 0 ELSE Head(group).tokens[1] + YesSum(Tail(group))

\* findNegRiskArbs for one group: <<>> or <<[yesSum, deviation]>>
findNegRiskArbs(group) ==
    IF Len(group) < 2 THEN <<>>
    ELSE LET yesSum == YesSum(group)
             deviation == Abs(ONE - yesSum)
         IN  IF deviation > NEG_RISK_BAND
             THEN <<[yesSum |-> yesSum, deviation |-> deviation]>>
             ELSE <<>>

InitGroup ==
    /\ running = TRUE
    /\ \E group \in GroupSamples :
          probe = <<[group |-> group, k |-> 0, results |-> <<>>]>>
    /\ file = EmptyState
    /\ queue = <<>>
    /\ now = 1
    /\ nextId = 1
    /\ calls = 0
    /\ scan = ScanIdle
    /\ poll = PollIdle

\* priceMarket on the next member: case 'correlated': checkCorrelatedArb(market)
PriceMember ==
    /\ probe[1].k < Len(probe[1].group)
    /\ probe' = <<[probe[1] EXCEPT
                     !.k = @ + 1,
                     !.results = Append(@, checkCorrelatedArb(probe[1].group[probe[1].k + 1]))]>>
    /\ UNCHANGED <<file, queue, now, nextId, calls, scan, poll, running>>

NextGroup == PriceMember

SpecGroup == InitGroup /\ [][NextGroup]_vars

-----------------------------------------------------------------------------
(* checkExits on one open position, with what the market and the gateway
   answer written down beforehand: whether there is an order book and its mid
   price, whether the market has resolved and at which terminal price, and
   whether the sell fills and at which price. *)

ExitEntryPrices == {40, 50}
ExitFairProbs   == {50, 65}
\* mid prices around entry * EXIT_STOP_LOSS_FRAC and fair + EXIT_PROFIT_THRESHOLD
ExitLivePrices  == {19, 20, 24, 25, 26, 55, 56, 60, 70, 71, 80}

\* the limit of the exit sell: currentPrice * 0.9
SellLimit(currentPrice) == (currentPrice * 9) \div 10

Observations ==
    {[live |-> FALSE, price |-> 0, resolved |-> FALSE, exitPrice |-> 0,
      fills |-> FALSE, fill |-> 0]}
    \cup {[live |-> FALSE, price |-> 0, resolved |-> TRUE, exitPrice |-> x,
           fills |-> FALSE, fill |-> 0] : x \in ResolvedPrices}
    \cup {[live |-> TRUE, price |-> c, resolved |-> FALSE, exitPrice |-> 0,
           fills |-> FALSE, fill |-> 0] : c \in ExitLivePrices}
    \cup UNION {{[live |-> TRUE, price |-> c, resolved |-> FALSE, exitPrice |-> 0,
                   fills |-> TRUE, fill |-> f] : f \in {SellLimit(c), c}} :
                 c \in ExitLivePrices}

InitExit ==
    /\ running = TRUE
    /\ \E entry \in ExitEntryPrices, fair \in ExitFairProbs, obs \in Observations :
          /\ file = recordOpen(EmptyState, Position(1, "weather", 20 * USDC, entry, fair))
          /\ probe = <<[obs |-> obs, checked |-> FALSE]>>
    /\ scan = [ScanIdle EXCEPT !.pc = "exits", !.open = OpenOf(file), !.i = 1]
    /\ queue = <<>>
    /\ now = 1
    /\ nextId = 2
    /\ calls = 0
    /\ poll = PollIdle

\* the body of checkExits' loop for the position at scan.i
CheckExit ==
    /\ scan.pc = "exits"
    /\ ~probe[1].checked
    /\ probe' = <<[probe[1] EXCEPT !.checked = TRUE]>>
    /\ LET pos == scan.open[scan.i]
           obs == probe[1].obs
       IN  IF ~obs.live
           THEN IF ~obs.resolved
                THEN scan' = AfterExit("no_price", "none") /\ UNCHANGED file
                ELSE /\ file' = CloseInFile(pos.id, obs.exitPrice)
                     /\ scan' = AfterExit("resolved", "resolved")
           ELSE IF ~isTakeProfit(pos, obs.price) /\ ~isStopLoss(pos, obs.price)
                THEN scan' = AfterExit("hold", "none") /\ UNCHANGED file
                ELSE IF ~obs.fills
                THEN scan' = AfterExit("sell_failed", "none") /\ UNCHANGED file
                ELSE /\ file' = CloseInFile(pos.id, obs.fill)
                     /\ scan' = AfterExit("sold", "exit_alert")
    /\ UNCHANGED <<queue, now, nextId, calls, poll, running>>

NextExit == CheckExit \/ Tick

SpecExit == InitExit /\ [][NextExit]_vars

-----------------------------------------------------------------------------
(* processMarket on one market: priceMarket, then the rest of processMarket *)

\* outcome prices of the market, the Yes token first (whole cents)
PricedTokens ==
    {<<400, 600>>, <<600, 400>>, <<450, 450>>, <<480, 500>>, <<460, 500>>,
     <<470, 530>>, <<430, 570>>, <<520, 520>>,
     <<30, 400, 430>>, <<300, 300, 300>>,
     <<30>> \o [i \in 1..24 |-> 35]}
\* the weather model's probability of Yes
FairSamplesYes == {0, 300, 470, 500, 650, 1000}
\* days ahead <= 1, <= 2, more
BaseConfidences == {80, 75, 65}
\* confidenceBoost: 0 to 15 points
Boosts == {0, 4, 5, 10, 15}

PricedMarkets ==
    [category : AllCategories, tokens : PricedTokens, hasYes : BOOLEAN, rewards : {0, 5}]
Externals ==
    [ok : BOOLEAN, fair : FairSamplesYes, baseConf : BaseConfidences, boost : Boosts]

\* the PricerResult as the ledger's units have it (cents, percent)
AsOpp(category, r) ==
    Opp(category, r.side, r.fair_prob \div 10, r.implied_prob \div 10,
        r.edge_percent \div 10, r.confidence)

InitPricer ==
    /\ running = TRUE
    /\ \E market \in PricedMarkets, ext \in Externals :
          /\ market.category \notin {"weather", "sponsored"} => market.hasYes
          /\ market.category # "sponsored" => market.rewards = 0
          /\ market.category # "weather" => ext.ok /\ ext.fair = 500 /\ ext.baseConf = 80
          /\ probe = <<[market |-> market, ext |-> ext, priced |-> FALSE, result |-> <<>>]>>
    /\ file = EmptyState
    /\ queue = <<>>
    /\ now = 1
    /\ nextId = 1
    /\ calls = 0
    /\ scan = [ScanIdle EXCEPT !.pc = "markets"]
    /\ poll = PollIdle

\* const result = await priceMarket(market)
PriceMarket ==
    /\ ~probe[1].priced
    /\ probe' = <<[probe[1] EXCEPT !.priced = TRUE,
                                   !.result = priceMarket(probe[1].market, probe[1].ext)]>>
    /\ UNCHANGED <<file, queue, now, nextId, calls, scan, poll, running>>

\* if (!result) return; then the risk check and the order or the queue
ProcessPriced ==
    /\ probe[1].priced
    /\ scan.pc = "markets" /\ scan.m = 0
    /\ IF probe[1].result = <<>>
       THEN /\ scan' = [scan EXCEPT !.m = @ + 1, !.act = "no_result"]
            /\ UNCHANGED queue
       ELSE ProcessResult(AsOpp(probe[1].market.category, probe[1].result[1]))
    /\ UNCHANGED <<file, now, nextId, calls, poll, probe, running>>

NextPricer == PriceMarket \/ ProcessPriced

SpecPricer == InitPricer /\ [][NextPricer]_vars

-----------------------------------------------------------------------------
(* main: the scan loop with its failure boundary and the shutdown requests *)

\* the places of a cycle where a call can throw: checkExits, scanMarkets and
\* processMarket (pricing, alerts), and recordOpen's saveState after an order
InCycle == {"exits", "markets", "place"}

\* an exception that leaves main: the loop is over while running is still true
Throw_Propagates ==
    /\ scan.pc \in InCycle
    /\ Len(probe) < MaxThrows
    /\ probe' = Append(probe, [at |-> now, pc |-> scan.pc])
    /\ scan' = [ScanIdle EXCEPT !.pc = "stopped", !.act = "threw"]
    /\ UNCHANGED <<file, queue, now, nextId, calls, poll, running>>

\* an exception raised inside the try block: the rest of the cycle is
\* abandoned, nothing is written, and control is in the catch block's
\* sleep(60_000)
Throw ==
    /\ scan.pc \in InCycle
    /\ Len(probe) < MaxThrows
    /\ probe' = Append(probe, [at |-> now, pc |-> scan.pc])
    /\ scan' = [ScanIdle EXCEPT !.pc = "caught", !.act = "threw"]
    /\ UNCHANGED <<file, queue, now, nextId, calls, poll, running>>

\* the catch block's sleep is over: back to the loop's condition
Recover ==
    /\ scan.pc = "caught"
    /\ scan' = [scan EXCEPT !.pc = "sleep"]
    /\ UNCHANGED <<file, queue, now, nextId, calls, poll, probe, running>>

\* SIGINT / SIGTERM: running = false; the cycle in progress goes on
Signal ==
    /\ running
    /\ scan.pc # "stopped"
    /\ running' = FALSE
    /\ UNCHANGED <<file, queue, now, nextId, calls, scan, poll, probe>>

\* POST /shutdown: running = false, then process.exit(0)
ControlShutdown ==
    /\ running
    /\ scan.pc # "stopped"
    /\ running' = FALSE
    /\ scan' = [scan EXCEPT !.pc = "stopped"]
    /\ UNCHANGED <<file, queue, now, nextId, calls, poll, probe>>

\* while (running) is false: main logs "stopped" and returns
LoopExit ==
    /\ ~running
    /\ scan.pc = "sleep"
    /\ scan' = [scan EXCEPT !.pc = "stopped"]
    /\ UNCHANGED <<file, queue, now, nextId, calls, poll, probe, running>>

NextLoop ==
    \/ ScanNext \/ Throw \/ Recover \/ Signal \/ ControlShutdown \/ LoopExit \/ Tick

SpecLoop == Init /\ [][NextLoop]_vars

\* the timers of the two sleeps fire, and the loop goes round when they do
SpecLoopFair == SpecLoop /\ WF_vars(Recover) /\ WF_vars(BeginCycle)

-----------------------------------------------------------------------------
(* C1 *)

SumOpen(state) == SumSize(OpenOf(state))

IsOpenIn(c, p) == p.status = "open" /\ p.category = c
SumOpenBucket(state, c) ==
    LET Keep(p) == IsOpenIn(c, p) IN SumSize(SelectSeq(state.open_positions, Keep))

\* C1: after any sequence of recordOpen and recordClose calls, total exposure
\* is the sum of the sizes of the open positions, each bucket exposure is the
\* sum over the open positions of that category, and neither is negative.
C1_ExposureMatchesOpen ==
    /\ file.total_exposure_usdc = SumOpen(file)
    /\ \A c \in MarketCategory : file.bucket_exposure[c] = SumOpenBucket(file, c)
    /\ file.total_exposure_usdc >= 0
    /\ \A c \in MarketCategory : file.bucket_exposure[c] >= 0

-----------------------------------------------------------------------------
(* C2 *)

\* C2: ledger mutations are atomic read-modify-writes with respect to the two
\* timelines: no write computed from an older snapshot removes a position
\* another write has recorded, or reopens a position another write has closed.
C2_NoLostWrite ==
    [][\A i \in DOMAIN file.open_positions :
          /\ i \in DOMAIN file'.open_positions
          /\ file'.open_positions[i].id = file.open_positions[i].id
          /\ file.open_positions[i].status = "closed"
                => file'.open_positions[i].status = "closed"]_vars

-----------------------------------------------------------------------------
(* C3 *)

\* some open position of the ledger is closed by the step
ClosesAnOpenPosition ==
    \E i \in DOMAIN file.open_positions, j \in DOMAIN file'.open_positions :
        /\ file.open_positions[i].status = "open"
        /\ file'.open_positions[j].id = file.open_positions[i].id
        /\ file'.open_positions[j].status = "closed"

\* C3: a closed position is never mutated again: whatever the interleaving of
\* checkExits with the close and reduce callbacks, its record (exit_price,
\* pnl_usdc, closed_at, size_usdc) stays as the first close left it, and daily
\* pnl changes only in a step that closes a position that was open.
C3_ClosedIsFinal ==
    [][/\ \A i \in DOMAIN file.open_positions, j \in DOMAIN file'.open_positions :
            ( /\ file.open_positions[i].status = "closed"
              /\ file'.open_positions[j].id = file.open_positions[i].id )
            => file'.open_positions[j] = file.open_positions[i]
       /\ file'.daily_pnl_usdc # file.daily_pnl_usdc => ClosesAnOpenPosition]_vars

-----------------------------------------------------------------------------
(* C4 *)

\* a <= b as the numbers compare: false when either is NaN
Within(a, b) == a # NaN /\ b # NaN /\ a <= b

\* a + b, NaN when either is NaN
Plus(a, b) == IF a = NaN \/ b = NaN THEN NaN ELSE a + b

\* C4: whenever checkRisk allows a trade, the approved size keeps total
\* exposure within MAX_TOTAL_EXPOSURE_USDC and the bucket within
\* MAX_SINGLE_BUCKET_USDC, and is at most MAX_POSITION_USDC and the proposed size.
C4_ApprovedSizeWithinCaps ==
    \A i \in DOMAIN probe :
        probe[i].out.allowed =>
            /\ Within(Plus(file.total_exposure_usdc, probe[i].out.sizeUsdc),
                      MAX_TOTAL_EXPOSURE_USDC)
            /\ Within(Plus(file.bucket_exposure["weather"], probe[i].out.sizeUsdc),
                      MAX_SINGLE_BUCKET_USDC)
            /\ Within(probe[i].out.sizeUsdc, MAX_POSITION_USDC)
            /\ Within(probe[i].out.sizeUsdc, probe[i].size)

-----------------------------------------------------------------------------
(* C5 *)

\* C5: the status of a position of the ledger only moves forward: it stays as
\* it is or goes from open to closed; nothing leaves closed.
C5_StatusMonotonic ==
    [][\A i \in DOMAIN file.open_positions, j \in DOMAIN file'.open_positions :
          file'.open_positions[j].id = file.open_positions[i].id
          => \/ file'.open_positions[j].status = file.open_positions[i].status
             \/ /\ file.open_positions[i].status = "open"
                /\ file'.open_positions[j].status = "closed"]_vars

-----------------------------------------------------------------------------
(* C6 *)

\* C6: a recordClose that brings daily pnl below -DAILY_LOSS_LIMIT_USDC sets
\* paused_until to the time of the close plus 24h; a checkRisk call made before
\* paused_until is refused for the pause with size 0, and a call at or after
\* paused_until (or with no pause set) is not refused for the pause.
C6_BreakerPausesChecks ==
    [][/\ ( /\ calls' = calls + 1
            /\ file' # file
            /\ file'.daily_pnl_usdc < -DAILY_LOSS_LIMIT_USDC )
          => file'.paused_until = now + PAUSE_HOURS * HOUR
       /\ Len(probe') > Len(probe)
          => LET r == probe'[Len(probe')] IN
             IF file.paused_until # 0 /\ now < file.paused_until
             THEN r.out = [allowed |-> FALSE, reason |-> "paused", sizeUsdc |-> 0]
             ELSE r.out.reason # "paused"]_vars

\* a close tripped the breaker at time 1; the check made before paused_until
\* was refused for the pause and the check made at paused_until was allowed
C6_Witness ==
    /\ file.daily_pnl_usdc < -DAILY_LOSS_LIMIT_USDC
    /\ file.paused_until = 1 + PAUSE_HOURS * HOUR
    /\ Len(probe) = 2
    /\ probe[1].at < file.paused_until
    /\ probe[1].paused_until = file.paused_until
    /\ probe[1].out.reason = "paused"
    /\ probe[2].at = file.paused_until
    /\ probe[2].out.allowed

-----------------------------------------------------------------------------
(* C7 *)

\* the circuit breaker is active in this ledger state at time t
BreakerActive(state, t) == state.paused_until # 0 /\ t < state.paused_until

\* C7: while the circuit breaker is active no step records a new position or
\* adds exposure to the ledger.
C7_NoNewRiskWhilePaused ==
    [][BreakerActive(file, now)
       => /\ \A j \in DOMAIN file'.open_positions :
                \E i \in DOMAIN file.open_positions :
                    file.open_positions[i].id = file'.open_positions[j].id
          /\ file'.total_exposure_usdc <= file.total_exposure_usdc
          /\ \A c \in MarketCategory :
                file'.bucket_exposure[c] <= file.bucket_exposure[c]]_vars

-----------------------------------------------------------------------------
(* C8 *)

\* the position checkExits is looking at
ExitPos == scan.open[scan.i]

\* the ledger after the position is closed at exitPrice by checkExits
ClosedByExit(exitPrice) ==
    LET k == FindId(file.open_positions, ExitPos.id) IN
    /\ k # 0
    /\ file'.open_positions[k].status = "closed"
    /\ file'.open_positions[k].exit_price = exitPrice
    /\ file'.daily_pnl_usdc = file.daily_pnl_usdc + Pnl(file.open_positions[k], exitPrice)

\* C8: the circuit breaker does not touch exit monitoring: with the breaker
\* active a cycle still starts checkExits over all the open positions, a
\* settlement can still be recorded and a triggered sell can still be made, and
\* the step closes the position in the ledger.
C8_ExitsRunWhilePaused ==
    [][BreakerActive(file, now)
       => /\ (scan.pc = "sleep" /\ scan'.pc # "sleep")
                => /\ scan'.open = OpenOf(file)
                   /\ scan'.pc = IF OpenOf(file) = <<>> THEN "markets" ELSE "exits"
          /\ scan.pc = "exits"
                => /\ ENABLED ExitResolved
                   /\ (\E c \in LivePrices : isTakeProfit(ExitPos, c) \/ isStopLoss(ExitPos, c))
                         => ENABLED ExitSell
          /\ (scan.pc = "exits" /\ scan'.act = "resolved" /\ scan' # scan)
                => \E x \in ResolvedPrices : ClosedByExit(x)
          /\ (scan.pc = "exits" /\ scan'.act = "sold" /\ scan' # scan)
                => \E c \in LivePrices :
                      /\ isTakeProfit(ExitPos, c) \/ isStopLoss(ExitPos, c)
                      /\ ClosedByExit((c * 9) \div 10)]_vars

\* the first position settled at a loss that tripped the breaker, and with the
\* breaker active checkExits went on to sell the second position
C8_Witness ==
    /\ BreakerActive(file, now)
    /\ scan.act = "sold"
    /\ Len(file.open_positions) = 2
    /\ file.open_positions[1].status = "closed"
    /\ file.open_positions[1].exit_price = 0
    /\ file.open_positions[1].pnl_usdc < -DAILY_LOSS_LIMIT_USDC
    /\ file.open_positions[2].status = "closed"
    /\ file.open_positions[2].exit_price \in {(c * 9) \div 10 : c \in LivePrices}

-----------------------------------------------------------------------------
(* C9 *)

\* a step in which processMarket handles the next market of the cycle
ProcessMarketStep == scan.pc = "markets" /\ scan'.m = scan.m + 1

\* C9: a risk-approved opportunity goes on to placeOrder exactly when its edge,
\* confidence and approved size pass the three auto-execute thresholds, and is
\* otherwise queued with a trade alert; it is never both, and an opportunity
\* checkRisk refuses is neither placed nor queued.
C9_AutoExecuteOrQueue ==
    [][ProcessMarketStep
       => \E opp \in Opportunities :
            LET risk == checkRisk(kellySize(opp.fair_prob, opp.implied_prob),
                                  opp.category, file, now)
                auto == /\ opp.edge_percent >= AUTO_EXECUTE_EDGE_PCT
                        /\ opp.confidence >= AUTO_EXECUTE_CONFIDENCE
                        /\ risk.sizeUsdc <= AUTO_EXECUTE_MAX_USDC
            IN  IF ~risk.allowed
                THEN /\ scan'.pc = "markets" /\ scan'.alert = "none"
                     /\ queue' = queue /\ file' = file
                ELSE IF auto
                THEN /\ scan'.pc = "place" /\ scan'.opp = opp
                     /\ scan'.sizeUsdc = risk.sizeUsdc /\ scan'.alert = "none"
                     /\ queue' = queue /\ file' = file
                ELSE /\ scan'.pc = "markets" /\ scan'.alert = "trade_alert"
                     /\ queue' # <<>> /\ Len(queue') <= Len(queue) + 1
                     /\ queue'[Len(queue')] =
                            [opp |-> opp, sizeUsdc |-> risk.sizeUsdc, addedAt |-> now]
                     /\ file' = file]_vars

\* an opportunity over the size cap was queued and a later one within the
\* three thresholds is at placeOrder
C9_Witness ==
    /\ scan.pc = "place"
    /\ scan.opp.edge_percent >= AUTO_EXECUTE_EDGE_PCT
    /\ scan.sizeUsdc <= AUTO_EXECUTE_MAX_USDC
    /\ queue # <<>>
    /\ Head(queue).opp.edge_percent >= AUTO_EXECUTE_EDGE_PCT
    /\ Head(queue).opp.confidence >= AUTO_EXECUTE_CONFIDENCE
    /\ Head(queue).sizeUsdc > AUTO_EXECUTE_MAX_USDC

-----------------------------------------------------------------------------
(* C10 *)

\* C10: a failed order changes nothing in the ledger: a buy that placeOrder
\* did not place records no position, on the auto-execute path and on the
\* approve path (where the user is told), and an exit whose sell did not fill
\* leaves the position open with exposures and daily pnl as they were.
C10_FailedOrderLeavesLedger ==
    [][/\ (scan.pc = "place" /\ scan'.act = "order_failed")
            => file' = file /\ nextId' = nextId
       /\ (poll.pc = "approve" /\ poll'.pc = "idle" /\ poll'.reply # "exec_confirm")
            => file' = file /\ nextId' = nextId /\ poll'.reply = "order_failed"
       /\ (scan.pc = "exits" /\ scan'.act = "sell_failed" /\ scan' # scan)
            => file' = file
       /\ (poll.pc = "callback" /\ poll'.reply \in {"no_book", "callback_failed"})
            => file' = file]_vars

\* with a position open, the exit sell for it did not fill and then the order
\* of an approved trade failed
C10_Witness ==
    /\ scan.act = "sell_failed"
    /\ poll.reply = "order_failed"
    /\ OpenOf(file) # <<>>
    /\ file.total_exposure_usdc = SumSize(OpenOf(file))

-----------------------------------------------------------------------------
(* C11 *)

\* a step in which "pending" lists the queue
PendingStep ==
    poll.pc = "idle" /\ poll'.reply = "pending_list" /\ calls' = calls + 1 /\ scan' = scan

\* C11: a pending trade whose age has reached the TTL is never executed by
\* approve and never listed by pending, whether or not a trade was queued
\* after it.
C11_ExpiredNeverUsed ==
    [][/\ (poll.pc = "idle" /\ poll'.pc = "approve") => Fresh(Head(queue), now)
       /\ PendingStep => \A i \in 1..poll'.shown : Fresh(queue[i], now)]_vars

-----------------------------------------------------------------------------
(* C12 *)

\* a step in which handleCommand answers a queue command with reply r
CommandStep(r) ==
    poll.pc = "idle" /\ calls' = calls + 1 /\ scan' = scan /\ poll'.reply = r

\* C12: the queue is FIFO: approve and reject each remove exactly the oldest
\* entry and keep the order of the rest, reject all empties the queue, pending
\* leaves it as it is, and approve or reject on an empty queue change nothing.
C12_QueueIsFifo ==
    [][/\ CommandStep("executing")
            => queue # <<>> /\ queue' = Tail(queue) /\ poll'.trade = Head(queue).opp
       /\ CommandStep("rejected") => queue # <<>> /\ queue' = Tail(queue)
       /\ CommandStep("cleared") => queue' = <<>>
       /\ CommandStep("pending_list") => queue' = queue /\ poll'.shown = Len(queue)
       /\ CommandStep("no_pending") => queue = <<>> /\ queue' = <<>> /\ file' = file]_vars

\* three trades were queued, the oldest was rejected, and approve has taken
\* the second while the third stays
C12_Witness ==
    /\ scan.m = 3
    /\ poll.pc = "approve"
    /\ Len(queue) = 1
    /\ poll.trade # Head(queue).opp

-----------------------------------------------------------------------------
(* C13 *)

\* the ledger after exactly one open position of this category and size was
\* appended through recordOpen
OneOpened(category, size) ==
    /\ Len(file'.open_positions) = Len(file.open_positions) + 1
    /\ SubSeq(file'.open_positions, 1, Len(file.open_positions)) = file.open_positions
    /\ LET p == file'.open_positions[Len(file'.open_positions)] IN
          p.status = "open" /\ p.size_usdc = size /\ p.category = category
    /\ file'.total_exposure_usdc = file.total_exposure_usdc + size
    /\ file'.bucket_exposure =
          [file.bucket_exposure EXCEPT ![category] = @ + size]
    /\ file'.daily_pnl_usdc = file.daily_pnl_usdc
    /\ file'.paused_until = file.paused_until

\* C13: approve submits the oldest trade with its queued size, or with the
\* override when one > 0 is given, whatever checkRisk would say of it; when
\* and only when the order is placed, one open position of that size is
\* recorded and total and bucket exposure grow by that size.
C13_ApproveRecordsAcceptedSize ==
    [][/\ CommandStep("executing")
            => /\ file' = file
               /\ \E ov \in Overrides :
                     poll'.sizeUsdc = IF ov > 0 THEN ov ELSE Head(queue).sizeUsdc
       /\ (poll.pc = "approve" /\ poll'.pc = "idle")
            => \/ /\ poll'.reply = "exec_confirm"
                  /\ OneOpened(poll.trade.category, poll.sizeUsdc)
               \/ /\ poll'.reply = "order_failed"
                  /\ file' = file]_vars

\* an approve with an override above the per-position cap was executed and
\* recorded at that size
C13_Witness ==
    /\ poll.reply = "exec_confirm"
    /\ file.open_positions # <<>>
    /\ LET p == file.open_positions[Len(file.open_positions)] IN
          /\ p.status = "open"
          /\ p.size_usdc = 45 * USDC
          /\ p.size_usdc > MAX_POSITION_USDC
          /\ file.bucket_exposure[p.category] >= p.size_usdc

-----------------------------------------------------------------------------
(* C14 *)

\* the exposures of this ledger state are the sums over its open positions
ExposuresMatch(state) ==
    /\ state.total_exposure_usdc = SumOpen(state)
    /\ \A c \in MarketCategory : state.bucket_exposure[c] = SumOpenBucket(state, c)

\* the position the callback picked is still open in the ledger file
PickedIsOpen ==
    \E i \in DOMAIN file.open_positions :
        file.open_positions[i].id = poll.pos.id /\ file.open_positions[i].status = "open"

\* C14: an add or a reduce on an open position, made on a ledger whose
\* exposures equal the sums of the open positions' sizes, leaves them equal,
\* and leaves no open position with a negative size.
C14_AdjustKeepsInvariant ==
    [][( /\ poll.pc = "callback"
         /\ poll'.reply \in {"increased", "reduced"}
         /\ PickedIsOpen
         /\ ExposuresMatch(file) )
       => /\ ExposuresMatch(file')
          /\ \A i \in DOMAIN file'.open_positions :
                file'.open_positions[i].status = "open"
                    => file'.open_positions[i].size_usdc >= 0]_vars

-----------------------------------------------------------------------------
(* C15 *)

\* C15: for every fair probability in [0,1] and every implied price strictly
\* between 0 and 1, kellySize returns a number that is at least 0 and at most
\* MAX_POSITION_PCT of the bankroll.
C15_KellyWithinCap ==
    ( /\ scan.act = "sized"
      /\ scan.opp.implied_prob > 0 /\ scan.opp.implied_prob < 100 )
    => /\ scan.sizeUsdc # NaN
       /\ scan.sizeUsdc >= 0
       /\ scan.sizeUsdc <= ConfiguredCap

\* a size strictly between 0 and the cap, and the cap is the default one
C15_Witness ==
    /\ scan.act = "sized"
    /\ scan.opp.implied_prob = 50
    /\ scan.opp.fair_prob = 51
    /\ probe[1].maxPct = MAX_POSITION_PCT
    /\ scan.sizeUsdc = 10 * USDC
    /\ scan.sizeUsdc < ConfiguredCap

-----------------------------------------------------------------------------
(* C16 *)

\* the sizer scenario: fair 0.70 at implied 0.50 has been sized
Scenario7050 ==
    scan.act = "sized" /\ scan.opp.fair_prob = 70 /\ scan.opp.implied_prob = 50

\* C16 as stated: with bankroll $1000, fair 0.70 and implied 0.50 the size is
\* $20 whenever the per-position cap is at least $20.
C16_SizeIsTwentyForAnyCap ==
    (Scenario7050 /\ ConfiguredCap >= 20 * USDC) => scan.sizeUsdc = 20 * USDC

\* C16, amended: with bankroll $1000, fair 0.70 and implied 0.50 half-Kelly
\* of the bankroll is $200 and the size is min($200, cap): $20 at the default
\* cap of $20, the cap itself up to $200.
C16_SizeIsMinOfHalfKellyAndCap ==
    Scenario7050
    => /\ scan.sizeUsdc = MathMin(200 * USDC, ConfiguredCap)
       /\ ConfiguredCap = 20 * USDC => scan.sizeUsdc = 20 * USDC

\* the scenario under the default cap gives $20, the cap
C16_Witness ==
    /\ Scenario7050
    /\ probe[1].maxPct = MAX_POSITION_PCT
    /\ ConfiguredCap = 20 * USDC
    /\ scan.sizeUsdc = 20 * USDC

-----------------------------------------------------------------------------
(* C17 *)

\* the ledger holds the first trade of the scenario and nothing else
FirstTradeOpen(c) ==
    /\ Len(file.open_positions) = 1
    /\ file.open_positions[1].category = c
    /\ file.open_positions[1].size_usdc = 30 * USDC
    /\ IsOpen(file.open_positions[1])
    /\ file.total_exposure_usdc = 30 * USDC
    /\ file.bucket_exposure = [b \in MarketCategory |-> IF b = c THEN 30 * USDC ELSE 0]

\* a checkRisk call on a proposal of $30
Check30 == scan.pc = "sleep" /\ calls' = calls + 1 /\ probe'[2].proposed = 30 * USDC

ApprovedAt(size) == [allowed |-> TRUE, reason |-> "none", sizeUsdc |-> size]

\* the steps of the bucket scenario
BucketScenario ==
    /\ (Check30 /\ file = EmptyState) => probe'[2].out = ApprovedAt(30 * USDC)
    /\ (scan.pc = "order" /\ file = EmptyState /\ scan.sizeUsdc = 30 * USDC)
          => FirstTradeOpen(scan.opp.category)'
    /\ (Check30 /\ FirstTradeOpen(probe'[2].category))
          => probe'[2].out = ApprovedAt(20 * USDC)

\* C17 as stated: with a bucket cap of $50 and an empty ledger, a first trade
\* of $30 is approved at $30 and recordOpen puts the bucket at $30; a second
\* trade of $30 in the same category is then approved at $20.
C17_BucketScenarioAnyPositionCap == [][BucketScenario]_vars

\* C17, amended: the same, when the per-position cap is at least $30.
C17_BucketScenario == [][ConfiguredCap >= 30 * USDC => BucketScenario]_vars

\* the second trade has just been approved at the remaining headroom
C17_Witness ==
    /\ ConfiguredCap >= 30 * USDC
    /\ scan.pc = "order"
    /\ Len(probe) = 2 /\ probe[2].proposed = 30 * USDC
    /\ FirstTradeOpen(probe[2].category)
    /\ scan.sizeUsdc = 20 * USDC

-----------------------------------------------------------------------------
(* C18 *)

\* pos.shares = size_usdc / entry_price
SharesOf(pos) == (pos.size_usdc * 100) \div pos.entry_price

\* the step closes the open position at place k of the ledger
ClosesAt(k) ==
    /\ IsOpen(file.open_positions[k])
    /\ k \in DOMAIN file'.open_positions
    /\ file'.open_positions[k].id = file.open_positions[k].id
    /\ file'.open_positions[k].status = "closed"

\* the close of pos, recorded as closed, settled the ledger as the rule says
SettledBy(pos, closed) ==
    LET x   == closed.exit_price
        pnl == ((x - pos.entry_price) * pos.size_usdc) \div pos.entry_price
    IN  /\ closed.pnl_usdc = pnl
        /\ x = 100 => pnl = (SharesOf(pos) * (100 - pos.entry_price)) \div 100
        /\ x = 0 => pnl = 0 - pos.size_usdc
        /\ closed.outcome = "win" <=> pnl >= 0
        /\ file'.daily_pnl_usdc = file.daily_pnl_usdc + pnl
        /\ file'.total_exposure_usdc = file.total_exposure_usdc - pos.size_usdc
        /\ file'.bucket_exposure[pos.category] =
               file.bucket_exposure[pos.category] - pos.size_usdc

\* C18: closing a position records pnl = (exitPrice - entry_price) * size_usdc
\* / entry_price (shares * (1 - entry) at exit price 1.0, -size at exit price
\* 0), marks the outcome win iff pnl >= 0, adds the pnl to daily_pnl_usdc and
\* reduces total and bucket exposure by the position's size, not by the pnl.
C18_CloseSettlesPosition ==
    [][\A k \in DOMAIN file.open_positions :
          ClosesAt(k) => SettledBy(file.open_positions[k], file'.open_positions[k])]_vars

-----------------------------------------------------------------------------
(* C19 *)

\* the sum of the outcome prices of the market under test, in thousandths
PriceSum == probe[1].tokens[1] + probe[1].tokens[2]

-----------------------------------------------------------------------------
(* C20 *)

\* the step raises an exception inside a scan cycle
Raises == scan.pc \in InCycle /\ Len(probe') = Len(probe) + 1

\* C20: an exception raised inside a scan cycle never ends the scan loop: it
\* is caught, the loop sleeps and, unless a shutdown is requested, another
\* cycle starts; the loop is over only when running is false.
C20_LoopSurvivesExceptions ==
    /\ [][Raises => scan'.pc = "caught"]_vars
    /\ [][scan.pc = "caught" => scan'.pc \in {"caught", "sleep"} \/ ~running']_vars
    /\ [](scan.pc = "stopped" => ~running)
    /\ (scan.pc = "caught" /\ running /\ calls < MaxOps)
          ~> (scan.pc \in InCycle \/ ~running)

\* a new cycle is processing markets after an exception of an earlier cycle,
\* with no shutdown requested
C20_Witness ==
    /\ Len(probe) >= 1
    /\ running
    /\ scan.pc = "markets"
    /\ scan.m >= 1

-----------------------------------------------------------------------------
(* C21 *)

\* checkExits moves on to the next position of its snapshot
NextPositionStep == scan.pc = "exits" /\ scan'.pc = "exits" /\ scan'.i = scan.i + 1

\* the poller takes up a command
TakesCommand == poll.pc = "idle" /\ (poll'.pc # "idle" \/ poll'.reply # poll.reply)

\* an order is with the gateway and its outcome is not yet in the ledger
OrderInFlight == scan.pc = "place" \/ poll.pc = "approve"

\* C21: once a shutdown has been requested the scan loop starts no further
\* market or position and the poller takes no further command, and the
\* process never exits while an order is in flight.
C21_ShutdownIsGraceful ==
    /\ [][~running => ~ProcessMarketStep /\ ~NextPositionStep /\ ~TakesCommand]_vars
    /\ [][(scan.pc # "stopped" /\ scan'.pc = "stopped") => ~OrderInFlight]_vars

-----------------------------------------------------------------------------
(* C22 *)

\* which rules the question under test matches
MatchesWeather       == "temperature" \in probe[1].question
MatchesCrypto        == {"bitcoin", "above_by"} \subseteq probe[1].question
MatchesGroup         == probe[1].negRisk
MatchesPolitics      == "election" \in probe[1].question
MatchesMacro         == "inflation" \in probe[1].question
MatchesEntertainment == "nba" \in probe[1].question

\* C22: categorise returns exactly one tag of the fixed category set, that of
\* the first matching rule in the order weather, crypto binary, group flag,
\* politics, macro, entertainment, and 'other' when none matches; it changes
\* nothing else.
C22_FirstMatchWins ==
    probe[1].category # "none" =>
      LET c == probe[1].category IN
      /\ c \in AllCategories
      /\ c = "weather" <=> MatchesWeather
      /\ c = "crypto_binary" <=> (~MatchesWeather /\ MatchesCrypto)
      /\ c = "correlated" <=> (~MatchesWeather /\ ~MatchesCrypto /\ MatchesGroup)
      /\ c = "politics" <=>
            (~MatchesWeather /\ ~MatchesCrypto /\ ~MatchesGroup /\ MatchesPolitics)
      /\ c = "macro" <=>
            ( /\ ~MatchesWeather /\ ~MatchesCrypto /\ ~MatchesGroup
              /\ ~MatchesPolitics /\ MatchesMacro )
      /\ c = "entertainment" <=>
            ( /\ ~MatchesWeather /\ ~MatchesCrypto /\ ~MatchesGroup
              /\ ~MatchesPolitics /\ ~MatchesMacro /\ MatchesEntertainment )
      /\ c = "other" <=>
            ( /\ ~MatchesWeather /\ ~MatchesCrypto /\ ~MatchesGroup
              /\ ~MatchesPolitics /\ ~MatchesMacro /\ ~MatchesEntertainment )
      /\ file = EmptyState /\ queue = <<>> /\ scan = ScanIdle /\ poll = PollIdle

\* a crypto question of a mutually exclusive group that also names an
\* election is a crypto binary
C22_Witness ==
    /\ probe[1].category = "crypto_binary"
    /\ MatchesGroup /\ MatchesPolitics /\ ~MatchesWeather

-----------------------------------------------------------------------------
(* C23 *)

\* the rejections the claim lists, for market m at the time of the call
TooSoon(m)     == m.expiry # NaN /\ m.expiry < now * 60 + 60
TooThin(m)     == m.volume < 10000 /\ m.liquidity < 1000
TooFewTokens(m) == Len(m.tokens) < 2
AllPricesZero(m) == \A i \in DOMAIN m.tokens : m.tokens[i] = 0
NoArbBinary(m) ==
    /\ m.category = "crypto_binary"
    /\ TokenSum(m.tokens) >= 975 /\ TokenSum(m.tokens) <= 1025
ListedRejection(m) ==
    TooSoon(m) \/ TooThin(m) \/ TooFewTokens(m) \/ AllPricesZero(m) \/ NoArbBinary(m)

KeptAsStated(m) == ~ListedRejection(m)
KeptAmended(m)  == m.expiry # NaN /\ ~ListedRejection(m)

\* C23 as stated: filterMarkets keeps a market iff none of the five listed
\* rejections holds, in input order.
C23_KeepsIffNoListedRejection ==
    probe[1].done => probe[1].out = SelectSeq(probe[1].markets, KeptAsStated)

\* C23, amended: filterMarkets keeps a market iff its expiry parses and none
\* of the five listed rejections holds; the output is the input with the
\* rejected markets removed, in input order.
C23_KeepsIffValidAndNoRejection ==
    probe[1].done => probe[1].out = SelectSeq(probe[1].markets, KeptAmended)

\* the first market is dropped, the second kept
C23_Witness ==
    /\ probe[1].done
    /\ Len(probe[1].out) = 1
    /\ probe[1].out[1] = probe[1].markets[2]
    /\ probe[1].markets[1] # probe[1].markets[2]
    /\ TooThin(probe[1].markets[1])

-----------------------------------------------------------------------------
(* C24 *)

\* the result priceMarket returned for the market, if it returned one
Produced == probe[1].priced /\ probe[1].result # <<>>

\* C24: in every PricerResult a pricing model produces, edge_percent is
\* |fair_prob - implied_prob| x 100 (here both in thousandths and the edge in
\* tenths of a percent, so the factor is 1).
C24_EdgeIsDerived ==
    Produced =>
        probe[1].result[1].edge_percent =
            Abs(probe[1].result[1].fair_prob - probe[1].result[1].implied_prob)

-----------------------------------------------------------------------------
(* C25 *)

\* a Yes/No market whose Yes token was found, priced by a model that picks a side
TwoSided ==
    /\ Produced
    /\ probe[1].market.category \in {"weather", "sponsored"}
    /\ probe[1].market.hasYes
    /\ Len(probe[1].market.tokens) = 2
    /\ probe[1].result[1].side \in {"Yes", "No"}

\* the market price of the token of a side
SidePrice(market, side) == IF side = "Yes" THEN market.tokens[1] ELSE market.tokens[2]

\* the model's probability of a side: the forecast's for weather, one half for
\* a sponsored market
SideProbability(market, ext, side) ==
    LET yes == IF market.category = "weather" THEN ext.fair ELSE ONE \div 2
    IN  IF side = "Yes" THEN yes ELSE ONE - yes

\* C25: in a PricerResult with side Yes or No, implied_prob is the market price
\* of the chosen side's token and fair_prob the model's probability of that
\* side, both within [0,1].
C25_ProbabilitiesAreOfChosenSide ==
    TwoSided =>
        /\ probe[1].result[1].implied_prob =
               SidePrice(probe[1].market, probe[1].result[1].side)
        /\ probe[1].result[1].fair_prob =
               SideProbability(probe[1].market, probe[1].ext, probe[1].result[1].side)
        /\ probe[1].result[1].implied_prob \in 0..ONE
        /\ probe[1].result[1].fair_prob \in 0..ONE

-----------------------------------------------------------------------------
(* C30 *)

MinEdgeOf(category) ==
    IF category = "sponsored" THEN MIN_EDGE_SPONSORED_PCT ELSE MIN_EDGE_PCT

Unpriced == {"politics", "macro", "entertainment", "other"}

\* a trade leaves processMarket: it goes to placeOrder or into the approval queue
TradeLeaves == (scan.pc # "place" /\ scan'.pc = "place") \/ queue' # queue

-----------------------------------------------------------------------------
(* C26 *)

\* the update has one of the command shapes the poller knows
KnownShape ==
    IF probe[1].kind = "text"
    THEN \/ probe[1].text \in {<<"menu">>, <<"/menu">>, <<"balance">>, <<"pnl">>,
                               <<"status">>, <<"pending">>, <<"/pending">>,
                               <<"reject", "all">>}
         \/ StartsWith(probe[1].text, "reject")
         \/ StartsWith(probe[1].text, "approve")
    ELSE \/ probe[1].data.cmd \in {"rf", "bl", "pd"} /\ probe[1].data.idx = NaN
         \/ probe[1].data.cmd \in {"cl", "ad", "rd"} /\ probe[1].data.idx # NaN

\* C26: every command of the authorized chat gets an explicit result, and one
\* that matches no known command shape gets an explicit "unrecognized" reply.
C26_EveryCommandAnswered ==
    probe[1].handled =>
        /\ poll.reply # "none"
        /\ ~KnownShape => poll.reply = "unknown_action"

-----------------------------------------------------------------------------
(* C27 *)

\* the refusal the stated order gives for a call at time t on a state, "none"
\* when no refusal applies; shrunk is the size after the caps, in whole cents
\* (no comparison holds of NaN)
StatedRefusal(state, t, shrunk) ==
    IF t < state.paused_until THEN "paused"
    ELSE IF Len(OpenOf(state)) >= MAX_CONCURRENT_POSITIONS THEN "max_positions"
    ELSE IF state.total_exposure_usdc >= MAX_TOTAL_EXPOSURE_USDC THEN "total_cap"
    ELSE IF state.bucket_exposure["weather"] >= MAX_SINGLE_BUCKET_USDC THEN "bucket_cap"
    ELSE IF shrunk # NaN /\ shrunk < 1 * USDC THEN "too_small"
    ELSE "none"

ShrunkSize(state, size) ==
    FloorCents(MathMin(MathMin(MathMin(size, MAX_POSITION_USDC),
                               MAX_TOTAL_EXPOSURE_USDC - state.total_exposure_usdc),
                       MAX_SINGLE_BUCKET_USDC - state.bucket_exposure["weather"]))

\* C27: checkRisk refuses for the first reason that applies, in the order
\* paused, position count, total cap, bucket cap, shrunk size under $1; a
\* refusal has allowed = false, a reason and sizeUsdc = 0; an approval has a
\* sizeUsdc of at least $1 in whole cents; the ledger is not changed.
C27_FirstRefusalDecides ==
    /\ [](probe # <<>> =>
            /\ probe[1].out.allowed <=>
                   StatedRefusal(file, probe[1].at, ShrunkSize(file, probe[1].size)) = "none"
            /\ ~probe[1].out.allowed =>
                   /\ probe[1].out.reason =
                          StatedRefusal(file, probe[1].at, ShrunkSize(file, probe[1].size))
                   /\ probe[1].out.reason # "none"
                   /\ probe[1].out.sizeUsdc = 0
            /\ probe[1].out.allowed =>
                   /\ probe[1].out.sizeUsdc >= 1 * USDC
                   /\ probe[1].out.sizeUsdc % CENT = 0)
    /\ [][file' = file]_vars

-----------------------------------------------------------------------------
(* C28 *)

\* a call of recordClose (the ledger API counts them in calls)
RecordCloseCalled == calls' = calls + 1

\* C28: recordClose acts only on an open position: a call whose positionId
\* names no position, or a position that is already closed, leaves the ledger
\* (positions, exposures, daily pnl, paused_until) as it was.
C28_CloseActsOnlyOnOpen ==
    [][(RecordCloseCalled /\ ~ClosesAnOpenPosition) => file' = file]_vars

-----------------------------------------------------------------------------
(* C29 *)

\* the exit check of the position is made by this step
ExitChecked == ~probe[1].checked /\ probe'[1].checked

\* the stated exit condition at a live price c
ExitDue(pos, c) ==
    \/ c * 100 < pos.entry_price * EXIT_STOP_LOSS_FRAC
    \/ c - pos.fair_prob > EXIT_PROFIT_THRESHOLD

\* C29: in one exit check an open position with a live price is sold iff the
\* price is under entry_price x EXIT_STOP_LOSS_FRAC or over fair_prob by more
\* than EXIT_PROFIT_THRESHOLD; recordClose is called, with the realized fill
\* price, only when the sell fills; with a live price and neither condition,
\* or with no live price and an unresolved market, the position stays open and
\* the ledger is unchanged.
C29_ExitIffStopLossOrTakeProfit ==
    [][ExitChecked =>
         LET pos == file.open_positions[1]
             obs == probe[1].obs
         IN  /\ obs.live =>
                   /\ scan'.act \in {"sold", "sell_failed"} <=> ExitDue(pos, obs.price)
                   /\ scan'.act = "sold" <=> ExitDue(pos, obs.price) /\ obs.fills
                   /\ scan'.act = "sold" => file' = recordClose(file, pos.id, obs.fill, now)
                   /\ scan'.act # "sold" => file' = file
             /\ (~obs.live /\ ~obs.resolved) =>
                   /\ file' = file
                   /\ file'.open_positions[1].status = "open"]_vars

\* a stop-loss sell has filled and the position is closed at the fill price
C29_Witness ==
    /\ probe # <<>> /\ probe[1].checked
    /\ scan.act = "sold"
    /\ probe[1].obs.price * 100 < file.open_positions[1].entry_price * EXIT_STOP_LOSS_FRAC
    /\ file.open_positions[1].status = "closed"
    /\ file.open_positions[1].exit_price = probe[1].obs.fill

-----------------------------------------------------------------------------
(* C31 *)

\* handler runs that have begun and neither returned nor thrown
RunningHandlers == {i \in DOMAIN probe : probe[i].state = "running"}

\* C31: the poller handles the updates one at a time in update order: a
\* handler completes before the next begins, no update is handled twice,
\* lastUpdateId never decreases, and a failed poll or handler leaves the next
\* poll scheduled as long as polling is enabled.
C31_OneUpdateAtATime ==
    /\ [](Cardinality(RunningHandlers) <= 1)
    /\ [](\A i, j \in DOMAIN probe : i < j => probe[i].id < probe[j].id)
    /\ [][Len(probe') > Len(probe) => RunningHandlers = {}]_vars
    /\ [][poll'.lastUpdateId >= poll.lastUpdateId]_vars
    /\ [](poll.pc = "ended" => ~poll.polling)
    /\ [][calls' > calls => poll'.pc = "timer"]_vars

\* a handler failed in the middle of a batch, and the updates after it were
\* fetched again and handled
C31_Witness ==
    /\ Len(probe) = MaxUpdates
    /\ \E i \in DOMAIN probe : i < Len(probe) /\ probe[i].state = "failed"
    /\ probe[Len(probe)].state = "done"

-----------------------------------------------------------------------------
(* C32 *)

\* the group's Yes prices are off 1.0 beyond the threshold
GroupMispriced == findNegRiskArbs(probe[1].group) # <<>>

\* member i has the lowest Yes price of the group
LowestMember(i) ==
    \A j \in DOMAIN probe[1].group :
        probe[1].group[i].tokens[1] <= probe[1].group[j].tokens[1]

\* C32: the grouped model sums the Yes prices over the markets of a group,
\* emits a result only when the sum is off 1.0 beyond the threshold, trades
\* the lowest-priced member and sets fair probability to 1 / group size.
C32_GroupSumDecides ==
    \A i \in DOMAIN probe[1].results :
        probe[1].results[i] # <<>> =>
            /\ GroupMispriced
            /\ LowestMember(i)
            /\ probe[1].results[i][1].implied_prob = probe[1].group[i].tokens[1]
            /\ probe[1].results[i][1].fair_prob = ONE \div Len(probe[1].group)

-----------------------------------------------------------------------------
(* C33 *)

\* the stated multiplier of the base sigma, in tenths, for a lead time in
\* tenths of a day
StatedMultiplier(d) ==
    CASE d <= 10 -> 6 [] d > 10 /\ d <= 20 -> 8 [] d > 20 /\ d <= 30 -> 10
      [] d > 30 /\ d <= 50 -> 14 [] OTHER -> 18

\* the question is an exact one or a range no wider than the configured width
NarrowBand ==
    \/ probe[1].type = "exact"
    \/ /\ probe[1].type = "range"
       /\ probe[1].bandWidth <= (IF probe[1].unit = "F" THEN NARROW_F ELSE NARROW_C)

\* what the same call gives for an "above" question at lead time d
WideAt(d) == sigmaAndConf(probe[1].unit, "above", UNBOUNDED_BAND, d)

-----------------------------------------------------------------------------
(* C34 *)

\* a signal of the probed call is on the side of its result
SomeAligned ==
    \E i \in 1..Len(probe[1].signals) : probe[1].signals[i].side = probe[1].result.side

\* C34: the smart-money boost never lowers confidence, adds at most 15, never
\* gives more than 99, and changes confidence only when a signal is on the
\* result's side.
C34_BoostIsBounded ==
    probe[1].done =>
        /\ probe[1].out.confidence >= probe[1].result.confidence
        /\ probe[1].out.confidence - probe[1].result.confidence <= 15
        /\ probe[1].out.confidence <= 99
        /\ probe[1].out.side = probe[1].result.side
        /\ ~SomeAligned => probe[1].out = probe[1].result

\* signals on both sides, the aligned one of a perfect wallet: 95 becomes 99
C34_Witness ==
    /\ probe[1].done
    /\ SomeAligned
    /\ \E i \in 1..Len(probe[1].signals) : probe[1].signals[i].side # probe[1].result.side
    /\ probe[1].result.confidence = 95
    /\ probe[1].out.confidence = 99

-----------------------------------------------------------------------------
(* C35 *)

-----------------------------------------------------------------------------
(* C36 *)

\* the step rewrote a position record as closed (a recordClose was persisted)
ClosePersisted ==
    \E i \in DOMAIN file.open_positions :
        /\ i \in DOMAIN file'.open_positions
        /\ file'.open_positions[i] # file.open_positions[i]
        /\ file'.open_positions[i].id = file.open_positions[i].id
        /\ file'.open_positions[i].status = "closed"

\* C36: daily pnl changes only by the pnl of a close and is never reset;
\* once it is below -DAILY_LOSS_LIMIT_USDC every close that leaves it below
\* the limit sets paused_until to the close's time + 24h; paused_until is
\* never cleared and never moves to an earlier time.
C36_PauseOnlyMovesForward ==
    [][/\ file'.paused_until >= file.paused_until
       /\ file'.daily_pnl_usdc # file.daily_pnl_usdc
          => \E i \in DOMAIN file'.open_positions :
                /\ file'.open_positions[i].status = "closed"
                /\ file'.daily_pnl_usdc
                      = file.daily_pnl_usdc + file'.open_positions[i].pnl_usdc
       /\ ( /\ file.daily_pnl_usdc < -DAILY_LOSS_LIMIT_USDC
            /\ file'.daily_pnl_usdc < -DAILY_LOSS_LIMIT_USDC
            /\ (ClosePersisted \/ file'.daily_pnl_usdc # file.daily_pnl_usdc) )
          => file'.paused_until = now + PAUSE_HOURS * HOUR]_vars

-----------------------------------------------------------------------------
(* C37 *)

\* C37: a pressed close, add or reduce button acts on the position that was
\* shown next to it when the menu was rendered, or is answered 'Position not
\* found'.
C37_ButtonActsOnShownPosition ==
    probe[1].press.cmd # "none" =>
        \/ probe[1].press.picked = probe[1].press.shown
        \/ probe[1].press.picked = 0

-----------------------------------------------------------------------------
(* C38 *)

\* the probed result's fair probability is not above its implied probability
NotAboveImplied == probe[1].result.fair_prob <= probe[1].result.implied_prob

\* a check before the size arithmetic refuses in this ledger
EarlierRefusal ==
    \/ file.paused_until # 0 /\ now < file.paused_until
    \/ Len(OpenOf(file)) >= MAX_CONCURRENT_POSITIONS
    \/ file.total_exposure_usdc >= MAX_TOTAL_EXPOSURE_USDC
    \/ file.bucket_exposure[probe[1].result.category] >= MAX_SINGLE_BUCKET_USDC

\* C38 as stated: a result whose fair_prob is not above its implied_prob (each
\* weather or sponsored 'No') gets Kelly size 0, is refused by checkRisk as
\* 'Position size too small', and is never executed or queued.
C38_NoSideRefusedTooSmall ==
    /\ probe[1].result.side = "No" <=> NotAboveImplied
    /\ (probe[1].done /\ NotAboveImplied) =>
          /\ probe[1].size_usdc = 0
          /\ probe[1].risk = [allowed |-> FALSE, reason |-> "too_small", sizeUsdc |-> 0]
          /\ scan.act = "refused"
          /\ queue = <<>>
          /\ scan.pc = "markets"

\* C38: a result whose fair_prob is not above its implied_prob (each weather
\* or sponsored 'No') gets Kelly size 0 and is refused by checkRisk, as
\* 'Position size too small' unless the pause, the position count or an
\* exposure cap refuses it first; it is never executed or queued.
C38_NoSideNeverTraded ==
    /\ probe[1].result.side = "No" <=> NotAboveImplied
    /\ (probe[1].done /\ NotAboveImplied) =>
          /\ probe[1].size_usdc = 0
          /\ ~probe[1].risk.allowed /\ probe[1].risk.sizeUsdc = 0
          /\ ~EarlierRefusal => probe[1].risk.reason = "too_small"
          /\ EarlierRefusal => probe[1].risk.reason # "too_small"
          /\ scan.act = "refused"
          /\ queue = <<>>
          /\ scan.pc = "markets"

\* a 'No' result with an edge of 22 points, processed on the empty ledger
C38_Witness ==
    /\ probe[1].done
    /\ probe[1].result.side = "No"
    /\ probe[1].result.fair_prob = 50 /\ probe[1].result.implied_prob = 72
    /\ file = EmptyState
    /\ probe[1].risk.reason = "too_small"
    /\ scan.act = "refused"

-----------------------------------------------------------------------------
(* C39 *)

\* C39: an update of a chat other than TELEGRAM_CHAT_ID changes neither the
\* approval queue nor the ledger and places no order; it only advances
\* lastUpdateId.
C39_ForeignChatIgnored ==
    [][probe[1].chat # TELEGRAM_CHAT_ID =>
          /\ file' = file /\ queue' = queue /\ poll' = poll
          /\ nextId' = nextId /\ scan' = scan /\ now' = now
          /\ probe'[1].lastUpdateId = UPDATE_ID]_vars

\* 'approve' sent from another chat with a trade queued: the update was
\* consumed and the trade is still queued
C39_Witness ==
    /\ probe[1].taken
    /\ probe[1].chat = "stranger"
    /\ probe[1].text = <<"approve">>
    /\ probe[1].lastUpdateId = UPDATE_ID
    /\ Len(queue) = 1
    /\ poll = PollIdle

====
